---- MODULE Spec2Model ----
(***************************************************************************)
(* Model of backend/server.js: the generation pipeline (generateWithRetry, *)
(* generateFallbackTestCases, POST /generate-tests).                       *)
(*                                                                         *)
(* An element of a test-case array is a record [id, category, description, *)
(* request, status, prim].  `request` is a reference into the request heap *)
(* (0: the case has no request property), because the padding loop stores  *)
(* the first case's request object, not a copy, in every synthesized case. *)
(* `status` is expected_response.status.  `prim` is "" for an object and   *)
(* the text of the value for an element that is a JSON number.             *)
(*                                                                         *)
(* The second part models the execution of tests (executeTest, POST        *)
(* /run-tests, POST /run-tests-stream): one run, its probes dispatched     *)
(* through pLimit.                                                         *)
(***************************************************************************)
EXTENDS Integers, Sequences, FiniteSets, TLC

VARIABLES
  pc,        \* per request: "idle", "rejected", "calling", "sleeping", "returned", "thrown", "done"
  spec,      \* per request: validatedSpec
  attempt,   \* per request: the loop counter of generateWithRetry
  calls,     \* per request: number of model.generateContent invocations so far
  err,       \* per request: the error caught by the current attempt (lastError)
  wait,      \* per request: duration of the setTimeout being awaited (ms)
  sleptFor,  \* per request: duration of the sleep that preceded the current invocation
  sleeps,    \* per request: number of sleeps started so far
  hist,      \* per request: how each attempt so far ended
  decoded,   \* per request: how the text of the current attempt decoded, [decode, k]
  recovered, \* per request: the array decoded from the model's text, before padding
  batch,     \* per request: the array generateWithRetry returned
  heap,      \* per request: the request objects the cases refer to
  resp,      \* per request: the HTTP response of POST /generate-tests
  cache,     \* generatedCache: set of [key, value, t] entries, t the time of expiry
  now,       \* Date.now(), in ms since the server started
  rpc,       \* the run: "idle", "rejected", "running", "failed", "done"
  mode,      \* the run: "batch" (POST /run-tests) or "stream" (POST /run-tests-stream)
  tests,     \* the run: req.body.testCases, the kind of each test
  concurrency, \* the run: req.body.concurrency
  limit,     \* the run: the bound pLimit was created with
  queue,     \* the run: the tests waiting in pLimit's queue, by index
  active,    \* the run: the tests whose probe is in flight
  results,   \* the run: per test, what its limit(...) promise resolved to
  completed, \* the run: the tests in the order their probes completed
  events,    \* the run: what the handler wrote to the event stream, in order
  connected, \* the run: the consumer's connection is open
  delivered, \* the run: the events that reached the consumer, in order
  runResp,   \* the run: the JSON response
  call       \* a call of a function on its own: [fn, arg, returned, ret]

genVars ==
  <<pc, spec, attempt, calls, err, wait, sleptFor, sleeps, hist, decoded, recovered, batch,
    heap, resp, cache, now>>

runVars ==
  <<rpc, mode, tests, concurrency, limit, queue, active, results, completed, events,
    connected, delivered, runResp>>

fnVars == <<call>>

vars == <<genVars, runVars, fnVars>>

\* the requests to POST /generate-tests
Requests == {1, 2}

\* one request on its own
Single == {1}

(***************************************************************************)
(* Program constants                                                       *)
(***************************************************************************)
maxRetries == 3
MAX_RETRY_DELAY_MS == 60000
USE_IMMEDIATE_FALLBACK_ON_QUOTA == FALSE
RetryPaddingMs == 500
BackoffUnitMs == 1000
BackoffCapMs == 5000
QuotaJitterRange == 1000
TransientJitterRange == 300
MinUsableCases == 4
BatchSize == 12
stdTTL == 3600      \* seconds
defaultConcurrency == 8

(***************************************************************************)
(* Bounds of the model                                                     *)
(***************************************************************************)
MaxCases == 13      \* the longest array the model returns
MaxTicks == 3       \* how often the clock advances
MaxTests == 3       \* the longest list of tests of a run
MaxTexts == 2       \* the longest list of body predicates
MaxResults == 3     \* the longest list of results given to the end of a batch run
MaxSegments == 3    \* the most segments a text of the model is made of

Min(a, b) == IF a <= b THEN a ELSE b

RECURSIVE Pow(_, _)
Pow(b, n) == IF n = 0 THEN 1 ELSE b * Pow(b, n - 1)

\* String.prototype.includes
Includes(s, t) == \E i \in 1..(Len(s) - Len(t) + 1) : SubSeq(s, i, i + Len(t) - 1) = t

(***************************************************************************)
(* Test cases and request objects                                          *)
(***************************************************************************)
EmptyObject == <<>>

\* `${String(idx).padStart(3, '0')}`
PadStart3(s) == IF Len(s) >= 3 THEN s ELSE IF Len(s) = 2 THEN "0" \o s ELSE "00" \o s

\* the request object of generateFallbackTestCases
FallbackRequest ==
  [method |-> "GET", endpoint |-> "/api/test", headers |-> "application/json",
   hasBody |-> FALSE, body |-> EmptyObject]

\* {} : an object with no method, endpoint, headers or body
EmptyRequest ==
  [method |-> "", endpoint |-> "", headers |-> "", hasBody |-> FALSE, body |-> EmptyObject]

FallbackCategory(i) ==
  IF i <= 3 THEN "valid" ELSE IF i <= 7 THEN "invalid" ELSE IF i <= 10 THEN "boundary" ELSE "security"

\* faulty variant of FallbackStatus: the status of the invalid band everywhere
FallbackStatus_AlwaysInvalid(i) == 400

FallbackStatus(i) == IF i <= 3 THEN 200 ELSE 400

\* generateFallbackTestCases(): the cases; case i refers to request object i
generateFallbackTestCases ==
  [i \in 1..12 |->
     [id |-> "TC_" \o PadStart3(ToString(i)),
      category |-> FallbackCategory(i),
      description |-> FallbackCategory(i) \o " test " \o ToString(i),
      request |-> i,
      status |-> FallbackStatus(i),
      prim |-> ""]]

\* the request objects generateFallbackTestCases() allocates, one per case
FallbackHeap == [i \in 1..12 |-> FallbackRequest]

(***************************************************************************)
(* What the model returns: the text of result.response.text(), described   *)
(* by what lines 425-439 decode from it.                                   *)
(***************************************************************************)
\* the distribution the prompt asks for (buildEnhancedPrompt, Requirements 2)
PromptCategory(i) ==
  IF i <= 3 THEN "valid" ELSE IF i <= 7 THEN "invalid" ELSE IF i <= 10 THEN "boundary" ELSE "security"

\* how the returned cases relate to the layout the prompt asks for
\* ("numbers": the array holds JSON numbers, 429, 430, ..., instead of objects)
Layouts == {"canonical", "reversed", "foreign", "noFirstRequest", "numbers"}

\* how the text decodes: JSON.parse gives an array, an object with a testCases
\* array, or some other JSON value; or JSON.parse throws and
\* extractArrayFromText finds an array, or finds none
Decodes == {"array", "testCasesObject", "otherJson", "extractedArray", "unparseable"}

ModelCategory(i, k, layout) ==
  IF layout = "reversed" THEN PromptCategory(k + 1 - i)
  ELSE IF layout = "foreign" THEN "negative"
  ELSE PromptCategory(i)

\* element i of k in the array the model returned
ModelCase(i, k, layout) ==
  IF layout = "numbers"
  THEN [id |-> "", category |-> "", description |-> "", request |-> 0, status |-> 0,
        prim |-> ToString(428 + i)]
  ELSE
  [id |-> IF layout = "reversed" THEN "TC_" \o PadStart3(ToString(k + 1 - i))
          ELSE IF layout = "foreign" THEN "case-" \o ToString(i)
          ELSE "TC_" \o PadStart3(ToString(i)),
   category |-> ModelCategory(i, k, layout),
   description |-> "model case " \o ToString(i),
   request |-> IF layout = "noFirstRequest" /\ i = 1 THEN 0 ELSE i,
   status |-> IF ModelCategory(i, k, layout) = "valid" THEN 200 ELSE 400,
   prim |-> ""]

\* the request object of case i as the model wrote it
ModelRequest(i) ==
  [method |-> "GET", endpoint |-> "/model/" \o ToString(i), headers |-> "model",
   hasBody |-> TRUE, body |-> [name |-> "model " \o ToString(i)]]

ModelCases(k, layout) == [i \in 1..k |-> ModelCase(i, k, layout)]

\* the request objects of the decoded array, one per element that is an object
ModelHeap(k, layout) == IF layout = "numbers" THEN <<>> ELSE [i \in 1..k |-> ModelRequest(i)]

TextOutcomes ==
  {[decode |-> d, k |-> k, layout |-> l] :
      d \in {"array", "testCasesObject", "extractedArray"}, k \in 0..MaxCases, l \in Layouts}
  \cup {[decode |-> d, k |-> 0, layout |-> "canonical"] : d \in {"otherJson", "unparseable"}}

\* what the decoding of lines 425-439 found in the text: how it decoded and how
\* many elements the array has (no text yet: NoText)
NoText == [decode |-> "", k |-> 0]
TextOf(o) == [decode |-> o.decode, k |-> o.k]

\* lines 425-439: is `testCases` an array after decoding?
DecodesToArray(o) == o.decode \in {"array", "testCasesObject", "extractedArray"}

\* faulty variant of Insufficient: three cases are enough
Insufficient_ThreeSuffice(o) == ~DecodesToArray(o) \/ o.k < MinUsableCases - 1

\* line 441: the attempt fails unless an array of at least 4 cases was decoded
Insufficient(o) == ~DecodesToArray(o) \/ o.k < MinUsableCases

\* faulty variant of PadCategory: the invalid band ends one position early
PadCategory_ShortInvalidBand(idx) ==
  IF idx <= 3 THEN "valid" ELSE IF idx < 7 THEN "invalid" ELSE IF idx <= 10 THEN "boundary" ELSE "security"

\* the category bands of the padding loop (line 450)
PadCategory(idx) ==
  IF idx <= 3 THEN "valid" ELSE IF idx <= 7 THEN "invalid" ELSE IF idx <= 10 THEN "boundary" ELSE "security"

\* lines 448-454: the case pushed at position idx; `ref` is its request
PadCase(idx, ref) ==
  [id |-> "TC_" \o PadStart3(ToString(idx)),
   category |-> PadCategory(idx),
   description |-> "Auto-filled " \o ToString(idx),
   request |-> ref,
   status |-> IF idx <= 3 THEN 200 ELSE 400,
   prim |-> ""]

\* lines 446-455: `while (testCases.length < 12) testCases.push(...)` on the state
\* [cases, heap]; `testCases[0]?.request || {}` is the first case's own request
\* object when it has one and a new empty object otherwise
RECURSIVE PadTo12(_)
PadTo12(st) ==
  IF Len(st.cases) >= BatchSize THEN st
  ELSE LET idx == Len(st.cases) + 1
           shared == st.cases[1].request # 0
           ref == IF shared THEN st.cases[1].request ELSE Len(st.heap) + 1
       IN PadTo12([cases |-> Append(st.cases, PadCase(idx, ref)),
                   heap |-> IF shared THEN st.heap ELSE Append(st.heap, EmptyRequest)])

\* faulty variant of SliceTo12: the array is returned without truncation
SliceTo12_NoTruncation(cases) == cases

\* line 457: testCases.slice(0, 12)
SliceTo12(cases) == SubSeq(cases, 1, Min(BatchSize, Len(cases)))

\* lines 445-457 for a decoded array of o.k >= 4 cases
NormalizedBatch(o) ==
  LET padded == PadTo12([cases |-> ModelCases(o.k, o.layout),
                         heap |-> ModelHeap(o.k, o.layout)])
  IN [cases |-> SliceTo12(padded.cases), heap |-> padded.heap]

(***************************************************************************)
(* Errors thrown by model.generateContent.  A message is the set of the    *)
(* phrases it contains; the error payload (error.response.data or          *)
(* error.data) is described by the fields the catch block looks at.        *)
(***************************************************************************)
\* a retryDelay / Retry-After value: absent; a decimal number of seconds
\* "<whole>.<frac>" (followed by "s" in a payload retryDelay); a JSON number;
\* or text that holds no number
NoValue == [kind |-> "absent", whole |-> 0, frac |-> <<>>]
Seconds(w, f) == [kind |-> "decimal", whole |-> w, frac |-> f]
NumberValue == [kind |-> "number", whole |-> 43, frac |-> <<>>]
TextValue == [kind |-> "text", whole |-> 0, frac |-> <<>>]

NoData ==
  [has |-> FALSE, quotaText |-> FALSE, retryDelay |-> NoValue,
   nestedRetryDelay |-> NoValue, limit |-> "absent"]

NoError == [message |-> {}, data |-> NoData, retryAfter |-> NoValue]

\* /429|Too Many Requests|quota/i on the message
MatchesQuotaMessage(msg) == msg \cap {"429", "Too Many Requests", "quota", "Quota"} # {}

\* /API key|authentication|invalid key/i on the message
MatchesAuthMessage(msg) ==
  msg \cap {"API key", "api key", "authentication", "invalid key"} # {}

\* error.message.includes('API key'): case-sensitive
IncludesApiKey(msg) == "API key" \in msg

\* line 467: isQuota
IsQuota(e) == MatchesQuotaMessage(e.message) \/ (e.data.has /\ e.data.quotaText)

RECURSIVE DigitsValue(_)
DigitsValue(f) == IF f = <<>> THEN 0 ELSE 10 * DigitsValue(SubSeq(f, 1, Len(f) - 1)) + f[Len(f)]

\* Math.ceil(parseFloat(text) * 1000): the values the double arithmetic can give.
\* The product is exact when the number of seconds is a multiple of 1/8 s, and
\* lies between two integers when it has digits below the millisecond; for the
\* other whole numbers of milliseconds the double product can lie just above the
\* integer (parseFloat("2.007") * 1000 is 2007.0000000000002), and Math.ceil
\* then gives one millisecond more.
CeilMs(d) ==
  LET den == Pow(10, Len(d.frac))
      num == (d.whole * den + DigitsValue(d.frac)) * 1000
      up == (num + den - 1) \div den
  IN IF num % den = 0 /\ up % 125 # 0 THEN {up, up + 1} ELSE {up}

\* lines 478-482: apiData.retryDelay matched by /([0-9]+(?:\.[0-9]+)?)s/; 0 for null
TopLevelDelayMs(e) ==
  IF e.data.retryDelay.kind = "decimal" THEN CeilMs(e.data.retryDelay) ELSE {0}

\* line 486: the first "retryDelay":"<number>s" of JSON.stringify(apiData); the
\* payload's own retryDelay is serialized before the nested one
RdMatch(e) ==
  IF e.data.retryDelay.kind = "decimal" THEN e.data.retryDelay
  ELSE IF e.data.nestedRetryDelay.kind = "decimal" THEN e.data.nestedRetryDelay
  ELSE NoValue

\* lines 490-494: the Retry-After header, parseFloat'ed; NaN leaves the delay unset
HeaderDelayMs(e) == IF e.retryAfter.kind = "decimal" THEN CeilMs(e.retryAfter) ELSE {0}

\* lines 470-498: the values retryDelayMs can have after the parsing block
\* (0 stands for both null and 0: the code tests only its truthiness)
RetryDelayMs(e) ==
  IF ~e.data.has THEN {0}
  ELSE UNION {
    IF v1 # 0 THEN {v1}
    ELSE UNION {
      IF v2 # 0 THEN {v2} ELSE HeaderDelayMs(e) :
        v2 \in IF RdMatch(e).kind = "decimal" THEN CeilMs(RdMatch(e)) ELSE {0} } :
    v1 \in TopLevelDelayMs(e) }

\* lines 501-510: freeTierDisabled
FreeTierDisabled(e) == e.data.has /\ e.data.limit \in {"zero", "message"}

\* Math.min(1000 * Math.pow(2, attempt), 5000)
BackoffBase(a) == Min(BackoffUnitMs * Pow(2, a), BackoffCapMs)

\* faulty variant of AdvisedWait: the padding is left out
AdvisedWait_NoPadding(ms) == Min(ms, MAX_RETRY_DELAY_MS)

\* line 526
AdvisedWait(ms) == Min(ms + RetryPaddingMs, MAX_RETRY_DELAY_MS)

\* faulty variant of QuotaBackoffWait: the base is not capped
QuotaBackoffWait_NoBaseCap(a, jitter) ==
  Min(BackoffUnitMs * Pow(2, a) + jitter, MAX_RETRY_DELAY_MS)

\* line 535
QuotaBackoffWait(a, jitter) == Min(BackoffBase(a) + jitter, MAX_RETRY_DELAY_MS)

\* faulty variant of TransientWait: the attempts are counted from zero
TransientWait_FromZero(a, jitter) == BackoffBase(a - 1) + jitter

\* line 550
TransientWait(a, jitter) == BackoffBase(a) + jitter

\* faulty variant of CatchResult: the last error is rethrown when the attempts are used up
CatchResult_RethrowLast(a, e, ms, jq, jt) ==
  IF IsQuota(e) THEN
    IF FreeTierDisabled(e) THEN [next |-> "return", wait |-> 0]
    ELSE IF USE_IMMEDIATE_FALLBACK_ON_QUOTA THEN [next |-> "return", wait |-> 0]
    ELSE IF ms > 0 THEN [next |-> "sleep", wait |-> AdvisedWait(ms)]
    ELSE [next |-> "sleep", wait |-> QuotaBackoffWait(a, jq)]
  ELSE IF MatchesAuthMessage(e.message) THEN [next |-> "throw", wait |-> 0]
  ELSE IF a < maxRetries THEN [next |-> "sleep", wait |-> TransientWait(a, jt)]
  ELSE [next |-> "throw", wait |-> 0]

\* faulty variant of CatchResult: an advised delay is honoured before the zero-quota check
CatchResult_DelayBeforeZeroQuota(a, e, ms, jq, jt) ==
  IF IsQuota(e) THEN
    IF ms > 0 THEN [next |-> "sleep", wait |-> AdvisedWait(ms)]
    ELSE IF FreeTierDisabled(e) THEN [next |-> "return", wait |-> 0]
    ELSE IF USE_IMMEDIATE_FALLBACK_ON_QUOTA THEN [next |-> "return", wait |-> 0]
    ELSE [next |-> "sleep", wait |-> QuotaBackoffWait(a, jq)]
  ELSE IF MatchesAuthMessage(e.message) THEN [next |-> "throw", wait |-> 0]
  ELSE IF a < maxRetries THEN [next |-> "sleep", wait |-> TransientWait(a, jt)]
  ELSE [next |-> "next", wait |-> 0]

\* faulty variant of CatchResult: no quota wait when no attempt is left
CatchResult_NoWaitAtLastAttempt(a, e, ms, jq, jt) ==
  IF IsQuota(e) THEN
    IF FreeTierDisabled(e) THEN [next |-> "return", wait |-> 0]
    ELSE IF USE_IMMEDIATE_FALLBACK_ON_QUOTA THEN [next |-> "return", wait |-> 0]
    ELSE IF a >= maxRetries THEN [next |-> "next", wait |-> 0]
    ELSE IF ms > 0 THEN [next |-> "sleep", wait |-> AdvisedWait(ms)]
    ELSE [next |-> "sleep", wait |-> QuotaBackoffWait(a, jq)]
  ELSE IF MatchesAuthMessage(e.message) THEN [next |-> "throw", wait |-> 0]
  ELSE IF a < maxRetries THEN [next |-> "sleep", wait |-> TransientWait(a, jt)]
  ELSE [next |-> "next", wait |-> 0]

\* lines 458-554: what the catch block does with error e at attempt a, given the
\* parsed delay ms and the two random jitters: sleep `wait` ms and go on with the
\* loop ("sleep"), return the fallback at once ("return"), rethrow ("throw"), or
\* leave the catch block without sleeping ("next")
CatchResult(a, e, ms, jq, jt) ==
  IF IsQuota(e) THEN
    IF FreeTierDisabled(e) THEN [next |-> "return", wait |-> 0]
    ELSE IF USE_IMMEDIATE_FALLBACK_ON_QUOTA THEN [next |-> "return", wait |-> 0]
    ELSE IF ms > 0 THEN [next |-> "sleep", wait |-> AdvisedWait(ms)]
    ELSE [next |-> "sleep", wait |-> QuotaBackoffWait(a, jq)]
  ELSE IF MatchesAuthMessage(e.message) THEN [next |-> "throw", wait |-> 0]
  ELSE IF a < maxRetries THEN [next |-> "sleep", wait |-> TransientWait(a, jt)]
  ELSE [next |-> "next", wait |-> 0]

\* line 442: new Error(`Insufficient tests: got ${n}`): no payload, no headers
InsufficientError == [message |-> {"Insufficient tests"}, data |-> NoData, retryAfter |-> NoValue]

(***************************************************************************)
(* Inputs: the errors the model call can throw, the random jitters, and    *)
(* the validated specs of the requests.                                    *)
(***************************************************************************)
Messages ==
  {{"fetch failed"}, {"429"}, {"quota"}, {"Too Many Requests"}, {"API key"}, {"api key"},
   {"authentication"}, {"invalid key"}, {"429", "API key"}, {"Quota", "authentication"}}

\* an error payload: whether its text holds "quota", its own retryDelay, a
\* retryDelay nested in its details, and its limit field
Payload(q, d, n, l) ==
  [has |-> TRUE, quotaText |-> q, retryDelay |-> d, nestedRetryDelay |-> n, limit |-> l]

PlainQuotaPayload == Payload(TRUE, NoValue, NoValue, "absent")

Payloads ==
  {Payload(TRUE, d, NoValue, "absent") :
     d \in {NoValue, NumberValue, TextValue, Seconds(2, <<>>), Seconds(2, <<0, 0, 7>>),
            Seconds(59, <<6>>), Seconds(0, <<>>)}}
  \cup {Payload(TRUE, d, n, "absent") :
     d \in {NoValue, NumberValue, Seconds(0, <<>>)},
     n \in {Seconds(43, <<3, 6, 8, 5>>), Seconds(70, <<>>)}}
  \cup {Payload(TRUE, d, NoValue, l) :
     d \in {NoValue, Seconds(2, <<>>)}, l \in {"zero", "five", "message"}}
  \cup {Payload(FALSE, d, NoValue, l) :
     d \in {NoValue, Seconds(2, <<>>)}, l \in {"absent", "zero"}}

RetryAfterHeaders == {NoValue, Seconds(2, <<>>), TextValue}

ModelErrors ==
  {[message |-> m, data |-> NoData, retryAfter |-> h] :
     m \in Messages, h \in RetryAfterHeaders}
  \cup
  {[message |-> m, data |-> d, retryAfter |-> NoValue] :
     m \in {{"fetch failed"}, {"429"}, {"429", "API key"}}, d \in Payloads}
  \cup
  {[message |-> m, data |-> d, retryAfter |-> Seconds(2, <<>>)] :
     m \in {{"fetch failed"}, {"429"}},
     d \in {PlainQuotaPayload, Payload(TRUE, Seconds(0, <<>>), NoValue, "absent"),
            Payload(TRUE, Seconds(2, <<0, 0, 7>>), NoValue, "absent"),
            Payload(FALSE, NoValue, NoValue, "absent")}}
  \cup
  {[message |-> m, data |-> PlainQuotaPayload, retryAfter |-> NoValue] :
     m \in {{"API key"}, {"authentication"}}}

\* Math.floor(Math.random() * n): the smallest and the largest value
Jitters(n) == {0, n - 1}

JohnBody == [name |-> "John", email |-> "john@example.com"]

ValidatedSpecs ==
  {[method |-> "POST", endpoint |-> "/users", headers |-> "spec", body |-> JohnBody, status |-> 201],
   [method |-> "GET", endpoint |-> "/users", headers |-> "spec", body |-> EmptyObject, status |-> 0],
   [method |-> "PUT", endpoint |-> "/users/1", headers |-> "spec", body |-> [name |-> "John"], status |-> 200],
   [method |-> "DELETE", endpoint |-> "/users/1", headers |-> "spec", body |-> EmptyObject,
    status |-> 204]}

NoSpec == [method |-> "", endpoint |-> "", headers |-> "", body |-> EmptyObject, status |-> 0]

(***************************************************************************)
(* What hist records of an attempt that threw e: the class of e in the     *)
(* error taxonomy ("ok" is recorded for an attempt that returned a batch,  *)
(* "transient" for one that decoded fewer than 4 cases)                    *)
(***************************************************************************)
Observed(e) ==
  IF e.message \cap {"429", "Too Many Requests", "quota", "Quota"} # {}
     \/ (e.data.has /\ e.data.quotaText)
  THEN (IF e.data.has /\ e.data.limit \in {"zero", "message"} THEN "zeroquota" ELSE "quota")
  ELSE IF e.message \cap {"API key", "api key", "authentication", "invalid key"} # {}
  THEN "auth"
  ELSE "transient"

(***************************************************************************)
(* POST /generate-tests: patching, summary, response                       *)
(***************************************************************************)
MethodsWithBody == {"POST", "PUT", "PATCH"}

\* delete b[f]
Without(b, f) == [g \in (DOMAIN b) \ {f} |-> b[g]]

\* b[f] = v
With(b, f, v) == [g \in (DOMAIN b) \cup {f} |-> IF g = f THEN v ELSE b[g]]

\* lines 626-631: a shallow copy of the spec's body with the defect the id selects
InvalidBody(id, body) ==
  IF id = "TC_004" THEN Without(body, "name")
  ELSE IF id = "TC_005" THEN Without(body, "email")
  ELSE IF id = "TC_006" THEN With(body, "email", "notanemail")
  ELSE [invalid_field |-> "wrong data"]

\* lines 633-636 ('a'.repeat(1000) is written "a*1000")
BoundaryBody(id, body) ==
  [name |-> IF id = "TC_008" THEN "" ELSE "a*1000",
   email |-> IF id = "TC_009" THEN ""
             ELSE IF "email" \in DOMAIN body /\ body.email # "" THEN body.email
             ELSE "test@test.com"]

\* lines 638-641
SecurityBody == [name |-> "<script>alert('XSS')</script>", email |-> "test@test.com' OR '1'='1"]

\* line 617 on an element that is a number, in a module (strict mode): the
\* assignment throws TypeError "Cannot create property 'request' on number '<n>'"
PrimitiveTypeError(prim) ==
  [message |-> {"Cannot create property 'request' on number", prim}, data |-> NoData,
   retryAfter |-> NoValue]

\* faulty variant of PatchCase: the body is kept for a method without body
PatchCase_KeepsBody(st, i, s) ==
  IF st.cases[i].prim # ""
  THEN [st EXCEPT !.threw = TRUE, !.error = PrimitiveTypeError(st.cases[i].prim)]
  ELSE
  LET tc == st.cases[i]
      fresh == tc.request = 0
      ref == IF fresh THEN Len(st.heap) + 1 ELSE tc.request
      hp == IF fresh THEN Append(st.heap, EmptyRequest) ELSE st.heap
      old == hp[ref]
      withBody == s.method \in MethodsWithBody
      known == tc.category \in {"valid", "invalid", "boundary", "security"}
      body == IF tc.category = "valid" THEN s.body
              ELSE IF tc.category = "invalid" THEN InvalidBody(tc.id, s.body)
              ELSE IF tc.category = "boundary" THEN BoundaryBody(tc.id, s.body)
              ELSE IF tc.category = "security" THEN SecurityBody
              ELSE old.body
      patched == [method |-> s.method, endpoint |-> s.endpoint, headers |-> s.headers,
                  hasBody |-> IF withBody THEN (known \/ old.hasBody) ELSE old.hasBody,
                  body |-> IF withBody THEN body ELSE old.body]
      status == IF withBody
                THEN (IF tc.category = "valid" THEN (IF s.method = "POST" THEN 201 ELSE 200) ELSE 400)
                ELSE (IF tc.category = "valid" THEN 200 ELSE 400)
  IN [cases |-> [st.cases EXCEPT ![i] = [tc EXCEPT !.request = ref, !.status = status]],
      heap |-> [hp EXCEPT ![ref] = patched], threw |-> FALSE, error |-> NoError]

\* lines 616-649: the patch of case i against validatedSpec s, on the state
\* [cases, heap, threw, error]
PatchCase(st, i, s) ==
  IF st.cases[i].prim # ""
  THEN [st EXCEPT !.threw = TRUE, !.error = PrimitiveTypeError(st.cases[i].prim)]
  ELSE
  LET tc == st.cases[i]
      fresh == tc.request = 0
      ref == IF fresh THEN Len(st.heap) + 1 ELSE tc.request
      hp == IF fresh THEN Append(st.heap, EmptyRequest) ELSE st.heap
      old == hp[ref]
      withBody == s.method \in MethodsWithBody
      known == tc.category \in {"valid", "invalid", "boundary", "security"}
      body == IF tc.category = "valid" THEN s.body
              ELSE IF tc.category = "invalid" THEN InvalidBody(tc.id, s.body)
              ELSE IF tc.category = "boundary" THEN BoundaryBody(tc.id, s.body)
              ELSE IF tc.category = "security" THEN SecurityBody
              ELSE old.body
      patched == [method |-> s.method, endpoint |-> s.endpoint, headers |-> s.headers,
                  hasBody |-> IF withBody THEN (known \/ old.hasBody) ELSE FALSE,
                  body |-> IF withBody THEN body ELSE EmptyObject]
      status == IF withBody
                THEN (IF tc.category = "valid" THEN (IF s.method = "POST" THEN 201 ELSE 200) ELSE 400)
                ELSE (IF tc.category = "valid" THEN 200 ELSE 400)
  IN [cases |-> [st.cases EXCEPT ![i] = [tc EXCEPT !.request = ref, !.status = status]],
      heap |-> [hp EXCEPT ![ref] = patched], threw |-> FALSE, error |-> NoError]

\* line 616: for (const tc of testCases), from case i on, until one throws
RECURSIVE PatchFrom(_, _, _)
PatchFrom(st, i, s) ==
  IF i > Len(st.cases) \/ st.threw THEN st ELSE PatchFrom(PatchCase(st, i, s), i + 1, s)

\* lines 615-650 on the array and request objects generateWithRetry returned
Patched(cases, hp, s) ==
  PatchFrom([cases |-> cases, heap |-> hp, threw |-> FALSE, error |-> NoError], 1, s)

(***************************************************************************)
(* The body objects of the patch.  While one case is patched, the objects  *)
(* in play are validatedSpec.body ("spec") and the object made for the      *)
(* case, a copy or a literal ("own"); `ref` tells which of them            *)
(* tc.request.body refers to ("none": the property is not assigned here).  *)
(***************************************************************************)
BodyStore(specBody) == [spec |-> specBody, own |-> EmptyObject, ref |-> "none"]

\* tc.request.body = validatedSpec.body: the same object
AssignSpecBody(st) == [st EXCEPT !.ref = "spec"]

\* tc.request.body = { ... }: an object literal
AssignLiteral(st, obj) == [st EXCEPT !.own = obj, !.ref = "own"]

\* faulty variant of AssignCopy: the spec's body itself is assigned
AssignCopy_Alias(st) == [st EXCEPT !.ref = "spec"]

\* tc.request.body = { ...validatedSpec.body }: a new object with the same fields
AssignCopy(st) == [st EXCEPT !.own = st.spec, !.ref = "own"]

\* delete tc.request.body[f]
DeleteField(st, f) ==
  IF st.ref = "spec" THEN [st EXCEPT !.spec = Without(@, f)]
  ELSE [st EXCEPT !.own = Without(@, f)]

\* tc.request.body[f] = v
SetField(st, f, v) ==
  IF st.ref = "spec" THEN [st EXCEPT !.spec = With(@, f, v)]
  ELSE [st EXCEPT !.own = With(@, f, v)]

\* lines 622-647 on the body objects, for a case with the given category and id
PatchBodyObjects(st, category, id, method) ==
  IF method \in MethodsWithBody
  THEN IF category = "valid" THEN AssignSpecBody(st)
       ELSE IF category = "invalid"
       THEN IF id = "TC_004" THEN DeleteField(AssignCopy(st), "name")
            ELSE IF id = "TC_005" THEN DeleteField(AssignCopy(st), "email")
            ELSE IF id = "TC_006" THEN SetField(AssignCopy(st), "email", "notanemail")
            ELSE AssignLiteral(AssignCopy(st), [invalid_field |-> "wrong data"])
       ELSE IF category = "boundary" THEN AssignLiteral(st, BoundaryBody(id, st.spec))
       ELSE IF category = "security" THEN AssignLiteral(st, SecurityBody)
       ELSE st
  ELSE st

\* lines 616-650: the contents of validatedSpec.body after the patch of the
\* cases from i on (a case that is a number ends the loop)
RECURSIVE SpecBodyFrom(_, _, _, _)
SpecBodyFrom(cases, i, specBody, method) ==
  IF i > Len(cases) \/ cases[i].prim # "" THEN specBody
  ELSE SpecBodyFrom(cases, i + 1,
         PatchBodyObjects(BodyStore(specBody), cases[i].category, cases[i].id, method).spec,
         method)

\* validatedSpec after the patch loop
SpecAfterPatch(cases, s) == [s EXCEPT !.body = SpecBodyFrom(cases, 1, s.body, s.method)]

\* the test cases as res.json serializes them: each with its request's contents
Serialized(st) ==
  [i \in 1..Len(st.cases) |->
     [id |-> st.cases[i].id, category |-> st.cases[i].category,
      description |-> st.cases[i].description,
      request |-> st.heap[st.cases[i].request], status |-> st.cases[i].status]]

CountCategory(cases, c) == Cardinality({i \in 1..Len(cases) : cases[i].category = c})

\* lines 652-658
Summary(cases) ==
  [total |-> Len(cases), valid |-> CountCategory(cases, "valid"),
   invalid |-> CountCategory(cases, "invalid"), boundary |-> CountCategory(cases, "boundary"),
   security |-> CountCategory(cases, "security")]

NoSummary == [total |-> 0, valid |-> 0, invalid |-> 0, boundary |-> 0, security |-> 0]

NoResponse ==
  [status |-> 0, success |-> FALSE, code |-> "", testCases |-> <<>>, summary |-> NoSummary,
   cached |-> FALSE]

\* lines 660-663: responseData, sent with status 200
SuccessResponse(st) ==
  [status |-> 200, success |-> TRUE, code |-> "", testCases |-> Serialized(st),
   summary |-> Summary(st.cases), cached |-> FALSE]

\* lines 664-671: the response of the catch block for the error e
ErrorResponse(e) ==
  IF IncludesApiKey(e.message)
  THEN [NoResponse EXCEPT !.status = 500, !.code = "API_KEY_ERROR"]
  ELSE IF MatchesQuotaMessage(e.message)
  THEN [NoResponse EXCEPT !.status = 429, !.code = "QUOTA_EXCEEDED"]
  ELSE [NoResponse EXCEPT !.status = 500, !.code = "GENERATION_ERROR"]

\* the clock advances in steps of half the TTL
TickMs == (stdTTL * 1000) \div 2

\* faulty variant of CacheSet: the entry is added beside the one the key has
CacheSet_KeepsOld(c, key, value, t) ==
  c \cup {[key |-> key, value |-> value, t |-> t + stdTTL * 1000]}

\* generatedCache.set(cacheKey, responseData) at time t: a copy of the value is
\* stored under the key, replacing the key's entry, to expire stdTTL seconds later
CacheSet(c, key, value, t) ==
  {x \in c : x.key # key} \cup {[key |-> key, value |-> value, t |-> t + stdTTL * 1000]}

\* faulty variant of Live: an entry never expires
Live_Forever(x, t) == TRUE

\* an entry is served until the clock has passed its time of expiry
Live(x, t) == ~(x.t < t)

\* generatedCache.get(cacheKey) at time t: the key's entry unless it has expired
CacheGet(c, key, t) == {x \in c : x.key = key /\ Live(x, t)}

\* generatedCache.get(cacheKey) finds nothing
CacheMiss(c, key, t) == CacheGet(c, key, t) = {}

\* an expired entry is deleted by the lookup that finds it
CacheAfterGet(c, key, t) == {x \in c : x.key # key \/ Live(x, t)}

\* line 607: { ...cached, cached: true }
CachedResponse(value) == [value EXCEPT !.cached = TRUE]

(***************************************************************************)
(* The state machine.  A step runs from one await to the next.             *)
(***************************************************************************)
InitRequests ==
  /\ pc = [r \in Requests |-> "idle"]
  /\ spec = [r \in Requests |-> NoSpec]
  /\ attempt = [r \in Requests |-> 0]
  /\ calls = [r \in Requests |-> 0]
  /\ err = [r \in Requests |-> NoError]
  /\ wait = [r \in Requests |-> 0]
  /\ sleptFor = [r \in Requests |-> 0]
  /\ sleeps = [r \in Requests |-> 0]
  /\ hist = [r \in Requests |-> <<>>]
  /\ decoded = [r \in Requests |-> NoText]
  /\ recovered = [r \in Requests |-> <<>>]
  /\ batch = [r \in Requests |-> <<>>]
  /\ heap = [r \in Requests |-> <<>>]
  /\ resp = [r \in Requests |-> NoResponse]
  /\ cache = {}
  /\ now = 0
  /\ rpc = "idle"
  /\ mode = ""
  /\ tests = <<>>
  /\ concurrency = [kind |-> "absent", n |-> 0]
  /\ limit = 0
  /\ queue = <<>>
  /\ active = {}
  /\ results = <<>>
  /\ completed = <<>>
  /\ events = <<>>
  /\ connected = TRUE
  /\ delivered = <<>>
  /\ runResp = [status |-> 0, success |-> FALSE, code |-> "", results |-> <<>>,
                summary |-> [total |-> 0, passed |-> 0, failed |-> 0, errors |-> 0]]

\* no function is called on its own
NoCall == [fn |-> "", arg |-> <<>>, returned |-> FALSE, ret |-> <<>>]

Init == InitRequests /\ call = NoCall

\* line 414: attempt++
NextAttempt(a) == a + 1

\* faulty variant of LoopContinues: one attempt too many
LoopContinues_OneMore(a) == a <= maxRetries + 1

\* line 414: attempt <= maxRetries
LoopContinues(a) == a <= maxRetries

(***************************************************************************)
(* Validation of the body of POST /generate-tests                          *)
(*                                                                         *)
(* A value of the body is [kind, text, pad]: kind is "absent", "number" or  *)
(* "string"; the text of a string is a sequence of tokens (" ", "/", ".",  *)
(* "\\", "%2e", "%2f", "etc", "passwd", "windows", "system" and words), and   *)
(* pad counts further characters of a long string that are none of them.   *)
(***************************************************************************)
Value(kind, text, pad) == [kind |-> kind, text |-> text, pad |-> pad]

Absent == Value("absent", <<>>, 0)
Number == Value("number", <<>>, 0)
Str(text) == Value("string", text, 0)

maxEndpointLength == 500

\* String.prototype.trim
RECURSIVE Trim(_)
Trim(t) ==
  IF t = <<>> THEN t
  ELSE IF Head(t) = " " THEN Trim(Tail(t))
  ELSE IF t[Len(t)] = " " THEN Trim(SubSeq(t, 1, Len(t) - 1))
  ELSE t

\* lines 149-160: the six patterns, a separator being "/" or "\\"
containsPathTraversal(t) ==
  \E sep \in {"/", "\\"} :
    \/ Includes(t, <<".", ".", sep>>)
    \/ Includes(t, <<sep, ".", ".", sep>>)
    \/ Includes(t, <<"%2e", "%2e", sep>>)
    \/ Includes(t, <<".", ".", "%2f">>)
    \/ Includes(t, <<"etc", sep, "passwd">>)
    \/ Includes(t, <<"windows", sep, "system">>)

Valid(value) == [ok |-> TRUE, value |-> value, field |-> "", message |-> ""]
ValidationError(message, field) == [ok |-> FALSE, value |-> <<>>, field |-> field, message |-> message]

\* String.prototype.toUpperCase on a method name; a word is one token
toUpperCase(w) ==
  CASE w = "get" -> "GET"
    [] w = "post" -> "POST"
    [] w = "Put" -> "PUT"
    [] w = "trace" -> "TRACE"
    [] OTHER -> w

validMethods == {"GET", "POST", "PUT", "PATCH", "DELETE", "OPTIONS", "HEAD"}

\* faulty variant of validateMethod: every method name is accepted
validateMethod_AnyName(method) ==
  IF method.kind = "string" /\ method.text # <<>>
  THEN Valid(<<toUpperCase(method.text[1])>>)
  ELSE ValidationError("Invalid HTTP method", "method")

\* lines 184-191; method?.toUpperCase() of a number is a TypeError, which the
\* handler's catch answers like a validation error, without a field
validateMethod(method) ==
  IF method.kind = "number" THEN ValidationError("method?.toUpperCase is not a function", "")
  ELSE IF method.kind = "string" /\ method.text # <<>> /\ Len(method.text) = 1
          /\ toUpperCase(method.text[1]) \in validMethods
  THEN Valid(<<toUpperCase(method.text[1])>>)
  ELSE ValidationError("Invalid HTTP method", "method")

\* lines 193-208
validateEndpoint(endpoint) ==
  IF endpoint.kind # "string" \/ (endpoint.text = <<>> /\ endpoint.pad = 0)
  THEN ValidationError("Endpoint is required", "endpoint")
  ELSE LET trimmed == Trim(endpoint.text) IN
       IF trimmed = <<>> \/ Head(trimmed) # "/"
       THEN ValidationError("Endpoint must start with /", "endpoint")
       ELSE IF Len(trimmed) + endpoint.pad > maxEndpointLength
       THEN ValidationError("Endpoint too long", "endpoint")
       ELSE IF containsPathTraversal(trimmed)
       THEN ValidationError("Invalid endpoint pattern", "endpoint")
       ELSE Valid(trimmed)

\* a request body: its spec is an object or not, and the spec's endpoint and method
RawSpec(isObject, endpoint, method) == [isObject |-> isObject, endpoint |-> endpoint, method |-> method]

RawEndpoints ==
  {Absent, Number, Str(<<>>), Str(<<"users">>), Str(<<" ">>), Str(<<" ", "/", "users", " ">>),
   Str(<<"/", "users">>), Str(<<"/", ".", ".", "/", "etc", "/", "passwd">>),
   Str(<<"/", "files", "\\", ".", ".", "\\", "x">>), Str(<<"/", "%2e", "%2e", "/", "x">>),
   Value("string", <<"/", "users">>, 498), Value("string", <<"/", "users">>, 499)}

RawMethods ==
  {Absent, Number, Str(<<>>), Str(<<"get">>), Str(<<"POST">>), Str(<<"Put">>), Str(<<"trace">>),
   Str(<<"FETCH">>), Str(<<"GET", " ">>)}

\* no spec, every endpoint with a valid method, every method with a valid
\* endpoint, and a spec with neither
RawSpecs ==
  {RawSpec(FALSE, Absent, Absent), RawSpec(TRUE, Absent, Absent)}
    \cup {RawSpec(TRUE, e, Str(<<"POST">>)) : e \in RawEndpoints}
    \cup {RawSpec(TRUE, Str(<<"/", "users">>), m) : m \in RawMethods}

\* lines 585-601: the answer of the validation, endpoint before method
Validation(raw) ==
  IF ~raw.isObject
  THEN [ok |-> FALSE, code |-> "INVALID_SPEC", field |-> "", endpoint |-> <<>>, method |-> <<>>]
  ELSE LET e == validateEndpoint(raw.endpoint) IN
       IF ~e.ok
       THEN [ok |-> FALSE, code |-> "VALIDATION_ERROR", field |-> e.field, endpoint |-> <<>>,
             method |-> <<>>]
       ELSE LET m == validateMethod(raw.method) IN
            IF ~m.ok
            THEN [ok |-> FALSE, code |-> "VALIDATION_ERROR", field |-> m.field,
                  endpoint |-> <<>>, method |-> <<>>]
            ELSE [ok |-> TRUE, code |-> "", field |-> "", endpoint |-> e.value,
                  method |-> m.value]

\* lines 586-590 and 597-600: res.status(400).json({ success: false, ..., code })
ValidationResponse(v) == [NoResponse EXCEPT !.status = 400, !.code = v.code]

\* POST /generate-tests, lines 583-601: the body fails validation; the handler
\* answers and returns before the cache is read
RejectGenerate(r, raw) ==
  /\ pc[r] = "idle"
  /\ ~Validation(raw).ok
  /\ resp' = [resp EXCEPT ![r] = ValidationResponse(Validation(raw))]
  /\ pc' = [pc EXCEPT ![r] = "rejected"]
  /\ UNCHANGED <<spec, attempt, calls, err, wait, sleptFor, sleeps, hist, decoded, recovered,
                 batch, heap, cache, now>>
  /\ UNCHANGED <<runVars, fnVars>>

\* POST /generate-tests, lines 583-612 and 414-417: the spec is valid, the cache
\* has no entry for it, generateWithRetry starts and invokes the model
StartGenerate(r, s) ==
  /\ pc[r] = "idle"
  /\ CacheMiss(cache, s, now)
  /\ cache' = CacheAfterGet(cache, s, now)
  /\ pc' = [pc EXCEPT ![r] = "calling"]
  /\ spec' = [spec EXCEPT ![r] = s]
  /\ attempt' = [attempt EXCEPT ![r] = 1]
  /\ calls' = [calls EXCEPT ![r] = 1]
  /\ UNCHANGED <<err, wait, sleptFor, sleeps, hist, decoded, recovered, batch, heap, resp, now>>
  /\ UNCHANGED <<runVars, fnVars>>

\* POST /generate-tests, lines 583-608: the spec is valid and the cache has a live
\* entry for it; the entry is sent, marked cached
ServeCached(r, s) ==
  /\ pc[r] = "idle"
  /\ \E x \in CacheGet(cache, s, now) :
       resp' = [resp EXCEPT ![r] = CachedResponse(x.value)]
  /\ pc' = [pc EXCEPT ![r] = "done"]
  /\ spec' = [spec EXCEPT ![r] = s]
  /\ UNCHANGED <<attempt, calls, err, wait, sleptFor, sleeps, hist, decoded, recovered, batch,
                 heap, cache, now>>
  /\ UNCHANGED <<runVars, fnVars>>

\* time passes
Tick ==
  /\ now < MaxTicks * TickMs
  /\ now' = now + TickMs
  /\ UNCHANGED <<pc, spec, attempt, calls, err, wait, sleptFor, sleeps, hist, decoded,
                 recovered, batch, heap, resp, cache>>
  /\ UNCHANGED <<runVars, fnVars>>

\* lines 458-558: the catch block for error e, up to the sleep it awaits, the
\* return of the fallback or the rethrow
Caught(r, e, obs, ms, jq, jt) ==
  LET c == CatchResult(attempt[r], e, ms, jq, jt)
      fallback == c.next \in {"return", "next"}
  IN /\ err' = [err EXCEPT ![r] = e]
     /\ hist' = [hist EXCEPT ![r] = Append(@, obs)]
     /\ wait' = [wait EXCEPT ![r] = c.wait]
     /\ sleeps' = [sleeps EXCEPT ![r] = IF c.next = "sleep" THEN @ + 1 ELSE @]
     /\ pc' = [pc EXCEPT ![r] = IF c.next = "sleep" THEN "sleeping"
                                ELSE IF c.next = "throw" THEN "thrown" ELSE "returned"]
     /\ attempt' = [attempt EXCEPT ![r] = IF c.next = "next" THEN NextAttempt(@) ELSE @]
     /\ batch' = [batch EXCEPT ![r] = IF fallback THEN generateFallbackTestCases ELSE @]
     /\ heap' = [heap EXCEPT ![r] = IF fallback THEN FallbackHeap ELSE @]
     /\ UNCHANGED <<spec, calls, sleptFor, recovered, resp, cache, now>>
     /\ UNCHANGED <<runVars, fnVars>>

\* lines 417-457: the model answers with text from which at least 4 cases are
\* decoded; the batch is padded or truncated to 12 and returned
ModelReturnsUsable(r, o) ==
  /\ pc[r] = "calling"
  /\ ~Insufficient(o)
  /\ pc' = [pc EXCEPT ![r] = "returned"]
  /\ recovered' = [recovered EXCEPT ![r] = ModelCases(o.k, o.layout)]
  /\ batch' = [batch EXCEPT ![r] = NormalizedBatch(o).cases]
  /\ heap' = [heap EXCEPT ![r] = NormalizedBatch(o).heap]
  /\ hist' = [hist EXCEPT ![r] = Append(@, "ok")]
  /\ decoded' = [decoded EXCEPT ![r] = TextOf(o)]
  /\ UNCHANGED <<spec, attempt, calls, err, wait, sleptFor, sleeps, resp, cache, now>>
  /\ UNCHANGED <<runVars, fnVars>>

\* lines 417-443 and the catch block: fewer than 4 cases are decoded
ModelReturnsInsufficient(r, o, jt) ==
  /\ pc[r] = "calling"
  /\ Insufficient(o)
  /\ decoded' = [decoded EXCEPT ![r] = TextOf(o)]
  /\ Caught(r, InsufficientError, "transient", 0, 0, jt)

\* line 417 throws e; the catch block
ModelThrows(r, e, jq, jt) ==
  /\ pc[r] = "calling"
  /\ decoded' = [decoded EXCEPT ![r] = NoText]
  /\ \E ms \in RetryDelayMs(e) : Caught(r, e, Observed(e), ms, jq, jt)

\* the awaited setTimeout fires; the loop goes on: either the next attempt
\* invokes the model or the loop ends and the fallback is returned (line 558)
SleepElapsed(r) ==
  /\ pc[r] = "sleeping"
  /\ sleptFor' = [sleptFor EXCEPT ![r] = wait[r]]
  /\ wait' = [wait EXCEPT ![r] = 0]
  /\ err' = [err EXCEPT ![r] = NoError]
  /\ decoded' = [decoded EXCEPT ![r] = NoText]
  /\ attempt' = [attempt EXCEPT ![r] = NextAttempt(@)]
  /\ IF LoopContinues(NextAttempt(attempt[r]))
     THEN /\ pc' = [pc EXCEPT ![r] = "calling"]
          /\ calls' = [calls EXCEPT ![r] = @ + 1]
          /\ UNCHANGED <<batch, heap>>
     ELSE /\ pc' = [pc EXCEPT ![r] = "returned"]
          /\ batch' = [batch EXCEPT ![r] = generateFallbackTestCases]
          /\ heap' = [heap EXCEPT ![r] = FallbackHeap]
          /\ UNCHANGED calls
  /\ UNCHANGED <<spec, sleeps, hist, recovered, resp, cache, now>>
  /\ UNCHANGED <<runVars, fnVars>>

\* lines 612-663: generateWithRetry returned; patch, summarize, cache (under the
\* cacheKey of line 603), respond
RespondSuccess(r) ==
  /\ pc[r] = "returned"
  /\ LET st == Patched(batch[r], heap[r], spec[r])
     IN /\ ~st.threw
        /\ batch' = [batch EXCEPT ![r] = st.cases]
        /\ heap' = [heap EXCEPT ![r] = st.heap]
        /\ resp' = [resp EXCEPT ![r] = SuccessResponse(st)]
        /\ cache' = CacheSet(cache, spec[r], SuccessResponse(st), now)
  /\ spec' = [spec EXCEPT ![r] = SpecAfterPatch(batch[r], spec[r])]
  /\ pc' = [pc EXCEPT ![r] = "done"]
  /\ UNCHANGED <<attempt, calls, err, wait, sleptFor, sleeps, hist, decoded, recovered, now>>
  /\ UNCHANGED <<runVars, fnVars>>

\* lines 612-617 and 664-671: generateWithRetry returned, the patch loop throws,
\* the handler's catch block responds
RespondPatchError(r) ==
  /\ pc[r] = "returned"
  /\ LET st == Patched(batch[r], heap[r], spec[r])
     IN /\ st.threw
        /\ resp' = [resp EXCEPT ![r] = ErrorResponse(st.error)]
  /\ pc' = [pc EXCEPT ![r] = "done"]
  /\ UNCHANGED <<spec, attempt, calls, err, wait, sleptFor, sleeps, hist, decoded, recovered,
                 batch, heap, cache, now>>
  /\ UNCHANGED <<runVars, fnVars>>

\* lines 664-671: generateWithRetry threw; the handler's catch block responds
RespondError(r) ==
  /\ pc[r] = "thrown"
  /\ resp' = [resp EXCEPT ![r] = ErrorResponse(err[r])]
  /\ pc' = [pc EXCEPT ![r] = "done"]
  /\ UNCHANGED <<spec, attempt, calls, err, wait, sleptFor, sleeps, hist, decoded, recovered,
                 batch, heap, cache, now>>
  /\ UNCHANGED <<runVars, fnVars>>

Next ==
  \E r \in Single :
    \/ \E s \in ValidatedSpecs : StartGenerate(r, s)
    \/ \E raw \in RawSpecs : RejectGenerate(r, raw)
    \/ \E o \in TextOutcomes : ModelReturnsUsable(r, o)
    \/ \E o \in TextOutcomes, jt \in Jitters(TransientJitterRange) :
         ModelReturnsInsufficient(r, o, jt)
    \/ \E e \in ModelErrors, jq \in Jitters(QuotaJitterRange),
          jt \in Jitters(TransientJitterRange) :
         ModelThrows(r, e, jq, jt)
    \/ SleepElapsed(r)
    \/ RespondSuccess(r)
    \/ RespondPatchError(r)
    \/ RespondError(r)

Spec == Init /\ [][Next]_vars

(***************************************************************************)
(* Two requests and the cache: the requests interleave at every await, the *)
(* clock advances between their steps.  The model's answers and errors are *)
(* a selection: a full and a short array, an array of numbers, unparseable *)
(* text; a zero-quota, a transient and an authentication error.            *)
(***************************************************************************)
CacheSpecs == {s \in ValidatedSpecs : s.method \in {"POST", "GET"}}

CacheTexts ==
  {[decode |-> "array", k |-> 12, layout |-> "canonical"],
   [decode |-> "array", k |-> 4, layout |-> "canonical"],
   [decode |-> "array", k |-> 4, layout |-> "numbers"],
   [decode |-> "unparseable", k |-> 0, layout |-> "canonical"]}

CacheErrors ==
  {[message |-> {"429"}, data |-> Payload(TRUE, NoValue, NoValue, "zero"), retryAfter |-> NoValue],
   [message |-> {"fetch failed"}, data |-> NoData, retryAfter |-> NoValue],
   [message |-> {"API key"}, data |-> NoData, retryAfter |-> NoValue]}

CacheNext ==
  \/ \E r \in Requests :
       \/ \E s \in CacheSpecs : StartGenerate(r, s)
       \/ \E s \in CacheSpecs : ServeCached(r, s)
       \/ \E raw \in RawSpecs : RejectGenerate(r, raw)
       \/ \E o \in CacheTexts : ModelReturnsUsable(r, o)
       \/ \E o \in CacheTexts : ModelReturnsInsufficient(r, o, 0)
       \/ \E e \in CacheErrors : ModelThrows(r, e, 0, 0)
       \/ SleepElapsed(r)
       \/ RespondSuccess(r)
       \/ RespondPatchError(r)
       \/ RespondError(r)
  \/ Tick

CacheSpec == Init /\ [][CacheNext]_vars

(***************************************************************************)
(* Execution of tests                                                      *)
(*                                                                         *)
(* A test of the request is given by its kind: "expect200" has an          *)
(* expected_response with status 200, "noExpected" has no                  *)
(* expected_response, "null" is the JSON value null.  The statuses         *)
(* "PASSED", "FAILED" and "ERROR" stand for the source's strings, which    *)
(* end in a check mark or a cross.                                         *)
(***************************************************************************)
TestKinds == {"expect200", "noExpected", "null"}

RunCategory(i) == IF i = 1 THEN "valid" ELSE IF i = 2 THEN "invalid" ELSE "security"

\* A string of a response body or of a body predicate is a sequence of
\* characters.
\* expected.body_contains / expected.body_not_contains: absent, or a list of strings
NoTexts == [present |-> FALSE, texts |-> <<>>]
Texts(ts) == [present |-> TRUE, texts |-> ts]

\* expected_response: {status, body_contains?, body_not_contains?}
Expected(st, bc, bnc) == [status |-> st, body_contains |-> bc, body_not_contains |-> bnc]

\* a test: hasRequest / hasExpected tell whether the object has the properties
\* request and expected_response
Test(id, cat, hasRequest, hasExpected, expected) ==
  [id |-> id, category |-> cat, description |-> "test " \o id,
   hasRequest |-> hasRequest, hasExpected |-> hasExpected, expected |-> expected]

\* the i-th element of req.body.testCases
RunTest(i, kind) ==
  Test("T" \o ToString(i), RunCategory(i), TRUE, kind = "expect200",
       Expected(200, NoTexts, NoTexts))

\* the lists of up to MaxTests tests of which at most one is not well-formed
TestLists ==
  {ts \in UNION {[1..n -> TestKinds] : n \in 0..MaxTests} :
     \A i, j \in 1..Len(ts) : (ts[i] # "expect200" /\ ts[j] # "expect200") => i = j}

\* req.body.testCases: something that is no array, or a list of tests
TestInputs ==
  {[isArray |-> FALSE, items |-> <<>>]} \cup {[isArray |-> TRUE, items |-> ts] : ts \in TestLists}

\* a URL property of the request body: absent, or a string
Urls == {"absent", "", "http://localhost:4000", "not a url"}

\* req.body.targetUrl and req.body.baseUrl
Targets == [targetUrl : Urls, baseUrl : Urls]

\* an absent property and the empty string are falsy
Falsy(u) == u \in {"absent", ""}

\* line 763: targetUrl || baseUrl || "http://localhost:3000", and line 807:
\* targetUrl || 'http://localhost:3000'
TestTarget(m, tg) ==
  IF ~Falsy(tg.targetUrl) THEN tg.targetUrl
  ELSE IF m = "batch" /\ ~Falsy(tg.baseUrl) THEN tg.baseUrl
  ELSE "http://localhost:3000"

\* faulty variant of ValidUrl: the target is not checked
ValidUrl_Unchecked(u) == TRUE

\* new URL(u) does not throw
ValidUrl(u) == u \in {"http://localhost:3000", "http://localhost:4000"}

\* req.body.concurrency: absent, an integer n, or the number n + 1/2
Concurrencies ==
  {[kind |-> "absent", n |-> 0], [kind |-> "fraction", n |-> 1]}
    \cup {[kind |-> "integer", n |-> n] : n \in {-1, 0, 1, 2}}

\* faulty variant of ConcurrencyOf: the default replaces a negative integer too
ConcurrencyOf_DefaultForNegative(c) ==
  IF c.kind = "integer" /\ c.n > 0 THEN c.n ELSE defaultConcurrency

\* lines 769, 816: concurrency && Number.isInteger(concurrency) ? concurrency : defaultConcurrency
ConcurrencyOf(c) == IF c.kind = "integer" /\ c.n # 0 THEN c.n ELSE defaultConcurrency

\* pLimit(n) throws a TypeError unless n is a positive integer (or Infinity)
PLimitThrows(n) == n <= 0

\* how a probe ends: axios resolves with a response (validateStatus accepts every
\* status) or rejects with a transport error
\* response.data: a string, or a value whose JSON text is `text`
Data(type, text) == [type |-> type, text |-> text]
NoBody == Data("string", <<>>)

Response(status, data) ==
  [kind |-> "response", status |-> status, data |-> data, code |-> "", message |-> ""]

TransportError(code, message) ==
  [kind |-> "error", status |-> 0, data |-> NoBody, code |-> code, message |-> message]

ProbeOutcomes ==
  {Response(200, NoBody), Response(400, NoBody),
   TransportError("ECONNREFUSED", "connect ECONNREFUSED 127.0.0.1:4000")}

\* lines 727, 735: typeof response.data === 'string' ? response.data : JSON.stringify(response.data)
ResponseStr(data) == data.text

\* line 724
StatusDetail(response, expected) ==
  [check |-> "status_code", passed |-> response.status = expected.status,
   expected |-> [status |-> expected.status], actual |-> [status |-> response.status]]

\* lines 728-732: the loop over expected.body_contains
RECURSIVE CheckContains(_, _, _)
CheckContains(v, str, texts) ==
  IF texts = <<>> THEN v
  ELSE LET contains == Includes(str, Head(texts))
           d == [check |-> "body_contains", passed |-> contains,
                 expected |-> [contains |-> Head(texts)],
                 actual |-> [text |-> IF contains THEN "found" ELSE "not found"]]
       IN CheckContains([passed |-> v.passed /\ contains, details |-> Append(v.details, d)],
                        str, Tail(texts))

\* faulty variant of CheckNotContains: a text that is found does not fail the report
RECURSIVE CheckNotContains_FoundPasses(_, _, _)
CheckNotContains_FoundPasses(v, str, texts) ==
  IF texts = <<>> THEN v
  ELSE LET contains == Includes(str, Head(texts))
           d == [check |-> "body_not_contains", passed |-> ~contains,
                 expected |-> [excludes |-> Head(texts)],
                 actual |-> [text |-> IF contains THEN "found (should not be)"
                                      ELSE "not found (correct)"]]
       IN CheckNotContains_FoundPasses([passed |-> v.passed, details |-> Append(v.details, d)],
                                       str, Tail(texts))

\* lines 736-740: the loop over expected.body_not_contains
RECURSIVE CheckNotContains(_, _, _)
CheckNotContains(v, str, texts) ==
  IF texts = <<>> THEN v
  ELSE LET contains == Includes(str, Head(texts))
           d == [check |-> "body_not_contains", passed |-> ~contains,
                 expected |-> [excludes |-> Head(texts)],
                 actual |-> [text |-> IF contains THEN "found (should not be)"
                                      ELSE "not found (correct)"]]
       IN CheckNotContains([passed |-> v.passed /\ ~contains, details |-> Append(v.details, d)],
                           str, Tail(texts))

\* lines 721-743
validateResponse(response, expected) ==
  LET v0 == [passed |-> response.status = expected.status,
             details |-> <<StatusDetail(response, expected)>>]
      v1 == IF expected.body_contains.present
            THEN CheckContains(v0, ResponseStr(response.data), expected.body_contains.texts)
            ELSE v0
  IN IF expected.body_not_contains.present
     THEN CheckNotContains(v1, ResponseStr(response.data), expected.body_not_contains.texts)
     ELSE v1

\* a result without the property validations
NoValidations == [passed |-> FALSE, details |-> <<>>]

\* lines 745-752 for an error without response
formatError(e) ==
  IF e.code = "ECONNREFUSED" THEN "Connection refused - Server not reachable"
  ELSE IF e.code = "ETIMEDOUT" THEN "Request timeout - Server took too long to respond"
  ELSE IF e.code = "ENOTFOUND" THEN "DNS lookup failed - Invalid host"
  ELSE e.message

NoResult ==
  [id |-> "", category |-> "", description |-> "", status |-> "",
   validations |-> NoValidations, actual |-> 0, error |-> ""]

\* line 717: the result of the catch block
ErrorResult(t, text) ==
  [id |-> t.id, category |-> t.category, description |-> t.description, status |-> "ERROR",
   validations |-> NoValidations, actual |-> 0, error |-> text]

\* the TypeError of validateResponse reading expected.status of undefined
UndefinedExpected ==
  TransportError("", "Cannot read properties of undefined (reading 'status')")

\* the TypeError of line 681 reading test.request.endpoint of undefined
UndefinedRequest ==
  TransportError("", "Cannot read properties of undefined (reading 'endpoint')")

\* faulty variant of executeTest: a status of 400 or more is treated as a fault
executeTest_StatusIsFault(t, o) ==
  IF ~t.hasRequest THEN ErrorResult(t, formatError(UndefinedRequest))
  ELSE IF o.kind = "response" /\ o.status < 400
  THEN IF t.hasExpected
       THEN LET validations == validateResponse(o, t.expected) IN
            [id |-> t.id, category |-> t.category, description |-> t.description,
             status |-> IF validations.passed THEN "PASSED" ELSE "FAILED",
             validations |-> validations, actual |-> o.status, error |-> ""]
       ELSE ErrorResult(t, formatError(UndefinedExpected))
  ELSE IF o.kind = "response" THEN ErrorResult(t, "Request failed with status code")
  ELSE ErrorResult(t, formatError(o))

\* lines 677-719: executeTest for a test that is an object, its probe (if the
\* request is sent) ending as o
executeTest(t, o) ==
  IF ~t.hasRequest THEN ErrorResult(t, formatError(UndefinedRequest))
  ELSE IF o.kind = "response"
  THEN IF t.hasExpected
       THEN LET validations == validateResponse(o, t.expected) IN
            [id |-> t.id, category |-> t.category, description |-> t.description,
             status |-> IF validations.passed THEN "PASSED" ELSE "FAILED",
             validations |-> validations, actual |-> o.status, error |-> ""]
       ELSE ErrorResult(t, formatError(UndefinedExpected))
  ELSE ErrorResult(t, formatError(o))

\* executeTest(null, ..) throws in its try block and again in its catch block
\* (test.id): the promise of that test rejects
Rejects(kind) == kind = "null"

CountStatus(rs, st) == Cardinality({i \in 1..Len(rs) : rs[i].status = st})

\* faulty variant of RunSummary: every test that did not pass counts as failed
RunSummary_FailedIsNotPassed(rs) ==
  [total |-> Len(rs), passed |-> CountStatus(rs, "PASSED"),
   failed |-> Len(rs) - CountStatus(rs, "PASSED"), errors |-> CountStatus(rs, "ERROR")]

\* lines 774-778
RunSummary(rs) ==
  [total |-> Len(rs), passed |-> CountStatus(rs, "PASSED"),
   failed |-> CountStatus(rs, "FAILED"), errors |-> CountStatus(rs, "ERROR")]

\* line 829: the summary of the done event has no count of errors
StreamSummary(rs) == [RunSummary(rs) EXCEPT !.errors = 0]

NoRunSummary == [total |-> 0, passed |-> 0, failed |-> 0, errors |-> 0]

FixedCategories == {"valid", "invalid", "boundary", "security"}

\* faulty variant of ByCategory: the passed count is that of the whole run
ByCategory_AllPassed(rs) ==
  [c \in FixedCategories |->
     [total |-> Cardinality({i \in 1..Len(rs) : rs[i].category = c}),
      passed |-> Cardinality({i \in 1..Len(rs) : rs[i].status = "PASSED"})]]

\* lines 785 and 788-793: per category, the number of results and of passed results
ByCategory(rs) ==
  [c \in FixedCategories |->
     [total |-> Cardinality({i \in 1..Len(rs) : rs[i].category = c}),
      passed |-> Cardinality({i \in 1..Len(rs) : rs[i].category = c /\ rs[i].status = "PASSED"})]]

NoRunResponse ==
  [status |-> 0, success |-> FALSE, code |-> "", results |-> <<>>, summary |-> NoRunSummary,
   byCategory |-> ByCategory(<<>>)]

\* what is written to the event stream: sendEvent(event, data), the error event
\* of the catch block, and res.end() (event "end")
Event(e, result, summary) == [event |-> e, result |-> result, summary |-> summary]

\* the events up to the end of the stream
UpToEnd(evs) ==
  LET ends == {i \in 1..Len(evs) : evs[i].event = "end"} IN
    IF ends = {} THEN evs
    ELSE SubSeq(evs, 1, CHOOSE i \in ends : \A j \in ends : i <= j)

\* lines 818-819, 831: res.write and res.end on a response whose connection
\* has been closed have no effect and do not throw; nothing reaches the consumer.
\* A res.write after res.end() is refused (ERR_STREAM_WRITE_AFTER_END): what it
\* writes is not sent either
Received(conn, dl, written) == IF conn THEN UpToEnd(written) ELSE dl

\* faulty variant of SlotFree: one probe more than the bound
SlotFree_OneMore(st) == Cardinality(st.active) <= st.limit

\* pLimit starts a queued function only while fewer than `limit` are running
SlotFree(st) == Cardinality(st.active) < st.limit

\* faulty variant of Dispatch: after a test whose promise rejects no further
\* queued test is started
RECURSIVE Dispatch_StopsAtRejection(_)
Dispatch_StopsAtRejection(st) ==
  IF SlotFree(st) /\ st.queue # <<>>
  THEN LET i == Head(st.queue) IN
         IF Rejects(st.tests[i])
         THEN [st EXCEPT !.queue = Tail(@), !.rejected = TRUE]
         ELSE Dispatch_StopsAtRejection([st EXCEPT !.queue = Tail(@), !.active = @ \cup {i}])
  ELSE st

\* pLimit, lines 770 and 822: queued tests are started in order while a slot is
\* free; a test whose promise rejects at once frees its slot at once.
\* st = [tests, limit, queue, active, rejected]
RECURSIVE Dispatch(_)
Dispatch(st) ==
  IF SlotFree(st) /\ st.queue # <<>>
  THEN LET i == Head(st.queue) IN
         IF Rejects(st.tests[i])
         THEN Dispatch([st EXCEPT !.queue = Tail(@), !.rejected = TRUE])
         ELSE Dispatch([st EXCEPT !.queue = Tail(@), !.active = @ \cup {i}])
  ELSE st

\* every limit(...) promise has resolved
AllResolved(rs) == \A i \in 1..Len(rs) : rs[i] # NoResult

\* faulty variant of JoinResult: the join fails when a result is an ERROR
JoinResult_ErrorFails(st, rs) ==
  IF st.rejected \/ \E i \in 1..Len(rs) : rs[i].status = "ERROR" THEN "failed"
  ELSE IF AllResolved(rs) THEN "done"
  ELSE "running"

\* lines 771, 828: await Promise.all(promises) rejects with the first rejection,
\* resolves when every promise has resolved, and is pending otherwise
JoinResult(st, rs) ==
  IF st.rejected THEN "failed"
  ELSE IF AllResolved(rs) THEN "done"
  ELSE "running"

\* faulty variant of StreamEnd: the done event is written after the stream's end
StreamEnd_DoneAfterEnd(outcome, rs) ==
  IF outcome = "done"
  THEN <<Event("end", NoResult, NoRunSummary), Event("done", NoResult, StreamSummary(rs))>>
  ELSE IF outcome = "failed"
  THEN <<Event("error", NoResult, NoRunSummary), Event("end", NoResult, NoRunSummary)>>
  ELSE <<>>

\* lines 829-835: what the streaming handler writes once the join has settled
StreamEnd(outcome, rs) ==
  IF outcome = "done"
  THEN <<Event("done", NoResult, StreamSummary(rs)), Event("end", NoResult, NoRunSummary)>>
  ELSE IF outcome = "failed"
  THEN <<Event("error", NoResult, NoRunSummary), Event("end", NoResult, NoRunSummary)>>
  ELSE <<>>

\* lines 773-797: the response of the batch handler once the join has settled
BatchEnd(outcome, rs) ==
  IF outcome = "done"
  THEN [status |-> 200, success |-> TRUE, code |-> "", results |-> rs,
        summary |-> RunSummary(rs), byCategory |-> ByCategory(rs)]
  ELSE IF outcome = "failed"
  THEN [NoRunResponse EXCEPT !.status = 500, !.code = "TEST_EXECUTION_ERROR"]
  ELSE NoRunResponse

\* the handler goes on after the join, once: later rejections and results of a
\* run that has failed change neither the response nor the state of the run
Settle(m, was, st, rs, written) ==
  LET outcome == IF was = "failed" THEN "failed" ELSE JoinResult(st, rs)
      first == was # "failed"
  IN /\ rpc' = outcome
     /\ queue' = st.queue
     /\ active' = st.active
     /\ results' = rs
     /\ events' = IF m = "stream" /\ first THEN written \o StreamEnd(outcome, rs) ELSE written
     /\ delivered' = Received(connected, delivered, events')
     /\ runResp' = IF m = "batch" /\ first THEN BatchEnd(outcome, rs) ELSE runResp

\* lines 760-764 and 806-808: the request is refused before anything is run
RejectRun(m, ti, tg) ==
  /\ rpc = "idle"
  /\ ~ti.isArray \/ Len(ti.items) = 0 \/ ~ValidUrl(TestTarget(m, tg))
  /\ rpc' = "rejected"
  /\ mode' = m
  /\ runResp' = [NoRunResponse EXCEPT
                   !.status = 400,
                   !.code = IF m = "stream" THEN ""
                            ELSE IF ~ti.isArray \/ Len(ti.items) = 0 THEN "INVALID_TEST_CASES"
                            ELSE "INVALID_URL"]
  /\ UNCHANGED <<tests, concurrency, limit, queue, active, results, completed, events,
                 connected, delivered>>
  /\ UNCHANGED <<genVars, fnVars>>

\* lines 757-771 and 803-828: the request is accepted; pLimit is created, every
\* test is queued, the first ones are started, and the handler awaits the join
StartRun(m, ti, tg, c) ==
  /\ rpc = "idle"
  /\ ti.isArray /\ Len(ti.items) > 0 /\ ValidUrl(TestTarget(m, tg))
  /\ mode' = m
  /\ tests' = ti.items
  /\ connected' = connected
  /\ concurrency' = c
  /\ completed' = <<>>
  /\ IF PLimitThrows(ConcurrencyOf(c))
     THEN /\ limit' = 0
          /\ Settle(m, "idle",
                    [tests |-> ti.items, limit |-> 0, queue |-> <<>>, active |-> {},
                     rejected |-> TRUE],
                    <<>>, <<>>)
     ELSE /\ limit' = ConcurrencyOf(c)
          /\ Settle(m, "idle",
                    Dispatch([tests |-> ti.items, limit |-> ConcurrencyOf(c),
                              queue |-> [i \in 1..Len(ti.items) |-> i], active |-> {},
                              rejected |-> FALSE]),
                    [i \in 1..Len(ti.items) |-> NoResult], <<>>)
  /\ UNCHANGED <<genVars, fnVars>>

\* faulty variant of Resolved: the values are kept in the order of completion
Resolved_InCompletionOrder(rs, i, result) ==
  LET free == {k \in 1..Len(rs) : rs[k] = NoResult}
      first == CHOOSE k \in free : \A j \in free : k <= j
  IN [rs EXCEPT ![first] = result]

\* lines 770-771, 822-828: Promise.all keeps the value of the i-th promise at
\* index i, whenever the promise resolves
Resolved(rs, i, result) == [rs EXCEPT ![i] = result]

\* the probe of test i ends as o: executeTest returns its result, the streaming
\* handler writes the test-result event, pLimit starts the next queued tests, and
\* the handler goes on if the join has settled
ProbeCompletes(i, o) ==
  /\ rpc \in {"running", "failed"}
  /\ i \in active
  /\ LET result == executeTest(RunTest(i, tests[i]), o)
     IN Settle(mode, rpc,
               Dispatch([tests |-> tests, limit |-> limit, queue |-> queue,
                         active |-> active \ {i}, rejected |-> FALSE]),
               Resolved(results, i, result),
               IF mode = "stream"
               THEN Append(events, Event("test-result", result, NoRunSummary))
               ELSE events)
  /\ completed' = Append(completed, i)
  /\ UNCHANGED <<mode, tests, concurrency, limit, connected>>
  /\ UNCHANGED <<genVars, fnVars>>

\* faulty variant of Disconnect: the run is cancelled, its probes are dropped
Disconnect_Cancels ==
  /\ mode = "stream" /\ rpc = "running" /\ connected
  /\ connected' = FALSE
  /\ active' = {}
  /\ queue' = <<>>
  /\ UNCHANGED <<rpc, mode, tests, concurrency, limit, results, completed, events,
                 delivered, runResp>>
  /\ UNCHANGED <<genVars, fnVars>>

\* the consumer of the event stream closes its connection; the handler has no
\* listener for it: the run goes on as it is
Disconnect ==
  /\ mode = "stream" /\ rpc = "running" /\ connected
  /\ connected' = FALSE
  /\ UNCHANGED <<rpc, mode, tests, concurrency, limit, queue, active, results,
                 completed, events, delivered, runResp>>
  /\ UNCHANGED <<genVars, fnVars>>

RunNext ==
  \/ \E m \in {"batch", "stream"}, ti \in TestInputs, tg \in Targets : RejectRun(m, ti, tg)
  \/ \E m \in {"batch", "stream"}, ti \in TestInputs, tg \in Targets, c \in Concurrencies :
       StartRun(m, ti, tg, c)
  \/ \E i \in 1..MaxTests, o \in ProbeOutcomes : ProbeCompletes(i, o)
  \/ Disconnect

RunSpec == Init /\ [][RunNext]_vars

\* every probe ends: axios resolves, rejects, or gives up after its timeout of
\* 15 seconds (line 694)
RunFairness ==
  \A i \in 1..MaxTests : WF_vars(\E o \in ProbeOutcomes : ProbeCompletes(i, o))

RunFairSpec == RunSpec /\ RunFairness

(***************************************************************************)
(* Functions on their own: a call is drawn with its arguments, and returns. *)
(***************************************************************************)
Call(fn, arg, ret) == [fn |-> fn, arg |-> arg, returned |-> FALSE, ret |-> ret]

\* response bodies: the string "ok", the empty string, an object with the JSON
\* text {a:ok} (quotes left out)
Bodies ==
  {Data("string", <<"o", "k">>), NoBody, Data("object", <<"{", "a", ":", "o", "k", "}">>)}

\* the strings of body predicates: "ok", "x", ""
PredicateTexts == {<<"o", "k">>, <<"x">>, <<>>}

TextLists ==
  {NoTexts} \cup {Texts(ts) : ts \in UNION {[1..n -> PredicateTexts] : n \in 0..MaxTexts}}

ValidateCalls ==
  {Call("validateResponse",
        [response |-> Response(st, d), expected |-> Expected(es, bc, bnc)], NoValidations) :
     st \in {200, 404}, d \in Bodies, es \in {200, 404}, bc \in TextLists, bnc \in TextLists}

ValidateReturns ==
  /\ call.fn = "validateResponse" /\ ~call.returned
  /\ call' = [call EXCEPT !.returned = TRUE,
                          !.ret = validateResponse(call.arg.response, call.arg.expected)]
  /\ UNCHANGED <<genVars, runVars>>

\* tests given to executeTest: well-formed ones, one without expected_response,
\* one without request
ExecuteTests ==
  {Test("TC_001", "valid", TRUE, TRUE, e) :
     e \in {Expected(200, NoTexts, NoTexts), Expected(404, NoTexts, NoTexts),
            Expected(500, NoTexts, NoTexts),
            Expected(200, Texts(<<<<"o", "k">>>>), NoTexts),
            Expected(200, NoTexts, Texts(<<<<"o", "k">>>>))}}
  \cup {Test("TC_001", "valid", TRUE, FALSE, Expected(0, NoTexts, NoTexts)),
        Test("TC_001", "valid", FALSE, TRUE, Expected(200, NoTexts, NoTexts))}

\* how axios(config) ends: validateStatus accepts every status, so it rejects
\* only without a response
ExecuteOutcomes ==
  {Response(st, d) : st \in {200, 404, 500}, d \in Bodies}
  \cup {TransportError("ECONNREFUSED", "connect ECONNREFUSED 127.0.0.1:4000"),
        TransportError("ETIMEDOUT", "connect ETIMEDOUT 10.0.0.1:80"),
        TransportError("ENOTFOUND", "getaddrinfo ENOTFOUND nohost"),
        TransportError("ECONNABORTED", "timeout of 15000ms exceeded"),
        TransportError("ECONNRESET", "socket hang up")}

ExecuteCalls ==
  {Call("executeTest", [test |-> t, outcome |-> o], NoResult) :
     t \in ExecuteTests, o \in ExecuteOutcomes}

ExecuteReturns ==
  /\ call.fn = "executeTest" /\ ~call.returned
  /\ call' = [call EXCEPT !.returned = TRUE,
                          !.ret = executeTest(call.arg.test, call.arg.outcome)]
  /\ UNCHANGED <<genVars, runVars>>

(***************************************************************************)
(* extractArrayFromText.  A text is a sequence of tokens: "f" is a code    *)
(* fence (three backquotes), "j" the tag json, "[" "]" "{" "}" themselves, *)
(* "t" the key "testCases" with its colon, "v" a JSON scalar (with the     *)
(* comma it needs), "w" a word that is no JSON.  A JSON value is the       *)
(* sequence of its tokens; null, the result for no array, is <<>>.         *)
(***************************************************************************)
NoArray == <<>>

\* JSON.parse reading a value at position i: the position after it, 0 for a
\* syntax error
RECURSIVE ValueEnd(_, _)
RECURSIVE ItemsEnd(_, _)
RECURSIVE MembersEnd(_, _)
ValueEnd(s, i) ==
  IF i > Len(s) THEN 0
  ELSE IF s[i] = "v" THEN i + 1
  ELSE IF s[i] = "[" THEN ItemsEnd(s, i + 1)
  ELSE IF s[i] = "{" THEN MembersEnd(s, i + 1)
  ELSE 0

ItemsEnd(s, i) ==
  IF i > Len(s) THEN 0
  ELSE IF s[i] = "]" THEN i + 1
  ELSE LET e == ValueEnd(s, i) IN IF e = 0 THEN 0 ELSE ItemsEnd(s, e)

MembersEnd(s, i) ==
  IF i > Len(s) THEN 0
  ELSE IF s[i] = "}" THEN i + 1
  ELSE IF s[i] = "t"
  THEN LET e == ValueEnd(s, i + 1) IN IF e = 0 THEN 0 ELSE MembersEnd(s, e)
  ELSE 0

\* JSON.parse(s) does not throw
Parses(s) == s # <<>> /\ ValueEnd(s, 1) = Len(s) + 1

\* Array.isArray(JSON.parse(s))
ParsesToArray(s) == Parses(s) /\ s[1] = "["

\* parsed.testCases of the parsed object s, from its member at i on: the value
\* of the last member, `none` if there is no member
RECURSIVE TestCasesFrom(_, _, _)
TestCasesFrom(s, i, none) ==
  IF s[i] = "t"
  THEN LET e == ValueEnd(s, i + 1) IN TestCasesFrom(s, e, SubSeq(s, i + 1, e - 1))
  ELSE none

\* parsed?.testCases && Array.isArray(parsed.testCases) ? parsed.testCases : nothing
TestCasesOf(s) ==
  IF Parses(s) /\ s[1] = "{"
  THEN LET tc == TestCasesFrom(s, 2, NoArray)
       IN IF tc # NoArray /\ tc[1] = "[" THEN tc ELSE NoArray
  ELSE NoArray

\* text.indexOf(c), from position i on; 0 for -1
IndexFrom(s, c, i) ==
  IF \E k \in i..Len(s) : s[k] = c
  THEN CHOOSE k \in i..Len(s) : s[k] = c /\ \A l \in i..(k - 1) : s[l] # c
  ELSE 0

\* faulty variant of LastIndexOf: the first occurrence
LastIndexOf_First(s, c) == IndexFrom(s, c, 1)

\* text.lastIndexOf(c); 0 for -1
LastIndexOf(s, c) ==
  IF \E k \in 1..Len(s) : s[k] = c
  THEN CHOOSE k \in 1..Len(s) : s[k] = c /\ \A l \in (k + 1)..Len(s) : s[l] # c
  ELSE 0

\* lines 365-375, strategy 1: the first pair of fences, the tag json skipped
FencedBlock(s) ==
  LET open == IndexFrom(s, "f", 1)
      close == IF open = 0 THEN 0 ELSE IndexFrom(s, "f", open + 1)
      from == IF close > open + 1 /\ s[open + 1] = "j" THEN open + 2 ELSE open + 1
  IN IF close = 0 THEN [matched |-> FALSE, text |-> <<>>]
     ELSE [matched |-> TRUE, text |-> SubSeq(s, from, close - 1)]

Strategy1(s) ==
  LET m == FencedBlock(s)
  IN IF ~m.matched THEN NoArray
     ELSE IF ParsesToArray(m.text) THEN m.text
     ELSE TestCasesOf(m.text)

\* lines 378-388, strategy 2: from the first "[" to the last "]"
Strategy2(s) ==
  LET first == IndexFrom(s, "[", 1)
      last == LastIndexOf(s, "]")
  IN IF first # 0 /\ last # 0 /\ last > first /\ ParsesToArray(SubSeq(s, first, last))
     THEN SubSeq(s, first, last)
     ELSE NoArray

\* lines 391-399, strategy 3: /"?testCases"?\s*:\s*(\[[\s\S]*?\])/ matches at
\* the first key that is followed by "[" and, later, "]", up to the nearest "]"
Strategy3(s) ==
  LET keys == {i \in 1..(Len(s) - 1) :
                 s[i] = "t" /\ s[i + 1] = "[" /\ IndexFrom(s, "]", i + 2) # 0}
  IN IF keys = {} THEN NoArray
     ELSE LET i == CHOOSE k \in keys : \A l \in keys : k <= l
              candidate == SubSeq(s, i + 1, IndexFrom(s, "]", i + 2))
          IN IF ParsesToArray(candidate) THEN candidate ELSE NoArray

\* lines 359-402
extractArrayFromText(s) ==
  IF s = <<>> THEN NoArray
  ELSE IF Strategy1(s) # NoArray THEN Strategy1(s)
  ELSE IF Strategy2(s) # NoArray THEN Strategy2(s)
  ELSE Strategy3(s)

\* what the texts of the model are made of: a word, a remark in brackets, two
\* arrays, fenced blocks with an array, with a tagged array, with a word, with a
\* remark in brackets and with an object, a testCases key with an array of
\* arrays, an object, and a lone closing bracket
Segments ==
  {<<"w">>, <<"[", "w", "]">>,
   <<"[", "v", "v", "]">>, <<"[", "[", "v", "]", "v", "]">>,
   <<"f", "[", "v", "v", "v", "]", "f">>, <<"f", "j", "[", "v", "]", "f">>,
   <<"f", "w", "f">>, <<"f", "[", "w", "]", "f">>,
   <<"f", "{", "t", "[", "v", "]", "}", "f">>,
   <<"t", "[", "[", "v", "]", "]">>, <<"t", "[", "v", "]">>,
   <<"]">>}

RECURSIVE Flatten(_)
Flatten(ss) == IF ss = <<>> THEN <<>> ELSE Head(ss) \o Flatten(Tail(ss))

ExtractCalls ==
  {Call("extractArrayFromText", [segments |-> ss, text |-> Flatten(ss)], NoArray) :
     ss \in UNION {[1..n -> Segments] : n \in 0..MaxSegments}}

ExtractReturns ==
  /\ call.fn = "extractArrayFromText" /\ ~call.returned
  /\ call' = [call EXCEPT !.returned = TRUE, !.ret = extractArrayFromText(call.arg.text)]
  /\ UNCHANGED <<genVars, runVars>>

\* results given to the end of a batch run: of the four categories and of
\* another one, passed or failed, and one in error
ResultOf(cat, st) == [NoResult EXCEPT !.id = "TC", !.category = cat, !.status = st]

ResultKinds ==
  {ResultOf(c, st) : c \in FixedCategories \cup {"performance"}, st \in {"PASSED", "FAILED"}}
    \cup {ResultOf("valid", "ERROR")}

ResultLists == UNION {[1..n -> ResultKinds] : n \in 1..MaxResults}

BatchEndCalls == {Call("batchResponse", [results |-> rs], NoRunResponse) : rs \in ResultLists}

\* lines 773-794: the response of a batch run whose join resolved with the results
BatchEndReturns ==
  /\ call.fn = "batchResponse" /\ ~call.returned
  /\ call' = [call EXCEPT !.returned = TRUE, !.ret = BatchEnd("done", call.arg.results)]
  /\ UNCHANGED <<genVars, runVars>>

Calls == ValidateCalls \cup ExecuteCalls \cup ExtractCalls \cup BatchEndCalls

FnInit == InitRequests /\ call \in Calls

FnNext ==
  \/ ValidateReturns
  \/ ExecuteReturns
  \/ ExtractReturns
  \/ BatchEndReturns

FnSpec == FnInit /\ [][FnNext]_vars

(***************************************************************************)
(* The claims                                                              *)
(***************************************************************************)
Last(s) == s[Len(s)]

\* the layout of a batch: the id and the category band of position i
ExpectedId(i) == "TC_" \o (IF i < 10 THEN "00" ELSE "0") \o ToString(i)
ExpectedBand(i) ==
  IF i \in 1..3 THEN "valid" ELSE IF i \in 4..7 THEN "invalid"
  ELSE IF i \in 8..10 THEN "boundary" ELSE "security"

\* the message of e indicates an invalid or missing credential
CredentialError(e) ==
  e.message \cap {"API key", "api key", "authentication", "invalid key"} # {}

\* e is a quota / rate-limit error: HTTP 429 or a quota-related message or payload
QuotaError(e) ==
  \/ e.message \cap {"429", "Too Many Requests", "quota", "Quota"} # {}
  \/ (e.data.has /\ e.data.quotaText)

\* the payload of e indicates a quota allotment of zero
ZeroQuota(e) == e.data.has /\ e.data.limit \in {"zero", "message"}

\* a delay value is a positive number of seconds
PositiveDelay(d) == d.kind = "decimal" /\ (d.whole > 0 \/ DigitsValue(d.frac) > 0)

\* a delay value in ms is DelayNum(d) / DelayDen(d); rounded up, DelayCeil(d)
DelayDen(d) == Pow(10, Len(d.frac))
DelayNum(d) == (d.whole * DelayDen(d) + DigitsValue(d.frac)) * 1000
DelayCeil(d) == (DelayNum(d) + DelayDen(d) - 1) \div DelayDen(d)

\* the retry delay the payload of e advises: its first "retryDelay":"<number>s"
PayloadDelay(e) ==
  IF e.data.retryDelay.kind = "decimal" THEN e.data.retryDelay ELSE e.data.nestedRetryDelay

\* C1: whenever generateWithRetry has returned (rather than thrown), the batch it
\* returned holds exactly 12 cases, whatever the model's outcomes were.
C1_ReturnedBatchHasTwelve ==
  \A r \in Requests : pc[r] = "returned" => Len(batch[r]) = 12

\* C1 witness: a 13-case answer is returned after a quota and a transient failure
C1_Witness ==
  /\ pc[1] = "returned"
  /\ hist[1] = <<"quota", "transient", "ok">>
  /\ Len(recovered[1]) = 13

\* C2 (as claimed): every returned batch has ids TC_001..TC_012 in position order
\* and the fixed category bands, whatever the model returned.
C2_FixedLayout ==
  \A r \in Requests :
    pc[r] = "returned" =>
      /\ Len(batch[r]) = 12
      /\ \A i \in 1..12 :
           batch[r][i].id = ExpectedId(i) /\ batch[r][i].category = ExpectedBand(i)

\* C3: with no authentication error among the outcomes generateWithRetry never
\* throws (it throws only on an authentication error), it has returned or thrown
\* once maxRetries attempts have ended, and when the last attempt did not succeed
\* the batch it returns is the fallback batch.
C3_NeverFailsOutward ==
  \A r \in Requests :
    /\ pc[r] = "thrown" => Last(hist[r]) = "auth"
    /\ (Len(hist[r]) = maxRetries /\ pc[r] # "sleeping")
         => pc[r] \in {"returned", "thrown", "done"}
    /\ (pc[r] = "returned" /\ Last(hist[r]) # "ok")
         => (batch[r] = generateFallbackTestCases /\ heap[r] = FallbackHeap)

\* C3 witness: three failed attempts, none an authentication error; the fallback is returned
C3_Witness ==
  /\ pc[1] = "returned"
  /\ hist[1] = <<"transient", "quota", "transient">>
  /\ batch[1] = generateFallbackTestCases

\* C4 (as claimed): an error whose message indicates a credential problem is
\* propagated at once (no sleep, no further invocation, no fallback batch),
\* whatever else the message or payload contains.
C4_CredentialErrorPropagates ==
  \A r \in Requests :
    CredentialError(err[r]) =>
      /\ pc[r] \in {"thrown", "done"}
      /\ wait[r] = 0
      /\ ~resp[r].success
      /\ calls[r] = Len(hist[r])

\* C5: at most maxRetries model invocations per call; every ended attempt, a
\* quota-failed one included, accounts for one invocation of the same counter;
\* after maxRetries ended attempts the call is over, at the latest when the sleep
\* of the last attempt ends; once an attempt has yielded a batch the call has
\* returned; and after the return the model is never invoked.
C5_BoundedAttempts ==
  /\ [](\A r \in Requests :
          /\ calls[r] <= maxRetries
          /\ calls[r] = Len(hist[r]) + (IF pc[r] = "calling" THEN 1 ELSE 0)
          /\ (pc[r] \in {"calling", "sleeping"} => attempt[r] = calls[r])
          /\ (Len(hist[r]) = maxRetries /\ pc[r] # "sleeping")
               => pc[r] \in {"returned", "thrown", "done"}
          /\ (hist[r] # <<>> /\ Last(hist[r]) = "ok") => pc[r] \in {"returned", "done"})
  /\ [][\A r \in Requests :
          /\ pc[r] \in {"returned", "thrown", "done"}
               => (calls'[r] = calls[r] /\ pc'[r] \notin {"calling", "sleeping"})
          /\ (pc[r] = "sleeping" /\ Len(hist[r]) = maxRetries /\ pc'[r] # pc[r])
               => pc'[r] = "returned"]_vars

\* C5 witness: three quota failures have used up the three attempts
C5_Witness ==
  /\ pc[1] = "returned"
  /\ hist[1] = <<"quota", "quota", "quota">>
  /\ calls[1] = 3

\* C6: a quota error whose payload indicates a zero quota allotment makes
\* generateWithRetry return the fallback at once: no sleep for that attempt, no
\* further invocation, also when attempts remain and a retry delay was advised.
C6_ZeroQuotaImmediateFallback ==
  \A r \in Requests :
    (QuotaError(err[r]) /\ ZeroQuota(err[r])) =>
      /\ pc[r] \in {"returned", "done"}
      /\ wait[r] = 0
      /\ sleeps[r] = Len(hist[r]) - 1
      /\ calls[r] = Len(hist[r])
      /\ pc[r] = "returned" => batch[r] = generateFallbackTestCases

\* C6 witness: zero quota at the first attempt, with an advised delay of 2 s
C6_Witness ==
  /\ pc[1] = "returned"
  /\ Len(hist[1]) = 1
  /\ QuotaError(err[1]) /\ ZeroQuota(err[1])
  /\ PositiveDelay(err[1].data.retryDelay)

\* the wait in ms that follows an advised delay d: d rounded up to whole
\* milliseconds, or one millisecond more (the rounding is applied to the
\* double-precision product seconds * 1000), plus the padding, capped
AdvisedWaits(d) ==
  { Min(DelayCeil(d) + RetryPaddingMs, MAX_RETRY_DELAY_MS),
    Min(DelayCeil(d) + 1 + RetryPaddingMs, MAX_RETRY_DELAY_MS) }

\* generateWithRetry is sleeping after a quota error without zero-quota indication
\* whose payload advises a positive retry delay
C7_Case(r) ==
  /\ pc[r] = "sleeping"
  /\ QuotaError(err[r]) /\ err[r].data.has /\ ~ZeroQuota(err[r])
  /\ PositiveDelay(PayloadDelay(err[r]))

\* C7 (as claimed): after a quota error advising a positive delay d, with no
\* zero-quota indication, the wait before the next attempt is exactly
\* min(d + 500 ms, 60000 ms).
C7_WaitsExactly ==
  \A r \in Requests :
    C7_Case(r) =>
      LET d == PayloadDelay(err[r]) IN
        wait[r] * DelayDen(d)
          = Min(DelayNum(d) + RetryPaddingMs * DelayDen(d), MAX_RETRY_DELAY_MS * DelayDen(d))

\* C7 (amended): after such an error the wait is min(c + 500, 60000) ms where c is
\* d rounded up to whole milliseconds or one millisecond more; it is never less
\* than min(d + 500, 60000); and the next invocation happens only after a sleep
\* of that whole wait.
C7_WaitsRoundedUp ==
  /\ [](\A r \in Requests :
          C7_Case(r) =>
            LET d == PayloadDelay(err[r]) IN
              /\ wait[r] \in AdvisedWaits(d)
              /\ wait[r] * DelayDen(d)
                   >= Min(DelayNum(d) + RetryPaddingMs * DelayDen(d),
                          MAX_RETRY_DELAY_MS * DelayDen(d))
              /\ wait[r] <= MAX_RETRY_DELAY_MS)
  /\ [][\A r \in Requests :
          (pc[r] = "sleeping" /\ pc'[r] = "calling")
            => (sleptFor'[r] = wait[r] /\ wait[r] > 0)]_vars

\* C7 witness: the advised delay 43.3685 s is waited as 43369 + 500 ms
C7_Witness ==
  /\ C7_Case(1)
  /\ PayloadDelay(err[1]) = Seconds(43, <<3, 6, 8, 5>>)
  /\ wait[1] = 43869

\* generateWithRetry is sleeping after a quota error without zero-quota indication
\* whose payload (if any) advises no delay and whose Retry-After header carries
\* a positive number of seconds
C8_Case(r) ==
  /\ pc[r] = "sleeping"
  /\ QuotaError(err[r]) /\ ~ZeroQuota(err[r])
  /\ (err[r].data.has => (err[r].data.retryDelay.kind = "none"
                          /\ err[r].data.nestedRetryDelay.kind = "none"))
  /\ PositiveDelay(err[r].retryAfter)

\* C8 (as claimed): the Retry-After header of a quota error gives the wait
\* (in ms, plus padding, capped) in preference to the exponential backoff, also
\* when the payload has no retry-delay field and when there is no payload at all.
C8_RetryAfterPreferred ==
  \A r \in Requests : C8_Case(r) => wait[r] \in AdvisedWaits(err[r].retryAfter)

\* C9 (as claimed): a quota failure is never surfaced: a request whose attempts all
\* failed on quota is answered success=true with 12 cases, and the QUOTA_EXCEEDED
\* response is unreachable.
C9_QuotaNeverSurfaced ==
  \A r \in Requests :
    /\ resp[r].code # "QUOTA_EXCEEDED"
    /\ (pc[r] = "done" /\ hist[r] # <<>>
        /\ \A i \in 1..Len(hist[r]) : hist[r][i] \in {"quota", "zeroquota"})
         => (resp[r].success /\ Len(resp[r].testCases) = 12)

\* the request of the cases synthesized after k recovered cases: the first case's
\* request when it has one
C10_SharesFirstRequest(r, k) ==
  \A i \in (k + 1)..12 : batch[r][i].request = batch[r][1].request

\* an own new empty object for each synthesized case
C10_FreshEmptyRequests(r, k) ==
  \A i \in (k + 1)..12 :
    /\ batch[r][i].request \in DOMAIN heap[r]
    /\ heap[r][batch[r][i].request] = EmptyRequest
    /\ \A j \in 1..12 : j # i => batch[r][j].request # batch[r][i].request

\* the k recovered cases are kept, and positions k+1..12 have the synthesized id
\* and the category of their band
C10_KeptAndSynthesized(r, k) ==
  /\ Len(batch[r]) = 12
  /\ \A i \in 1..k : batch[r][i] = recovered[r][i]
  /\ \A i \in 1..k : recovered[r][i].request # 0
       => heap[r][recovered[r][i].request] = ModelRequest(i)
  /\ \A i \in (k + 1)..12 :
       /\ batch[r][i].id = ExpectedId(i)
       /\ batch[r][i].category = ExpectedBand(i)

\* generateWithRetry has returned the batch made from the cases of its last attempt
C10_Case(r) == pc[r] = "returned" /\ Last(hist[r]) = "ok"

\* C10 (as claimed): k recovered cases, 4 <= k <= 12, are kept unchanged in
\* positions 1..k and positions k+1..12 are synthesized with id TC_<position>,
\* the band's category and the request of the first recovered case; of more than
\* 12 recovered cases exactly the first 12 are kept.
C10_PaddingAndTruncation ==
  \A r \in Requests :
    C10_Case(r) =>
      LET k == Len(recovered[r]) IN
        IF k > 12 THEN batch[r] = SubSeq(recovered[r], 1, 12)
        ELSE C10_KeptAndSynthesized(r, k) /\ C10_SharesFirstRequest(r, k)

\* C10 (amended): as claimed, except that the synthesized cases carry the first
\* recovered case's request object itself when that case has one, and each a new
\* empty object when it has none.
C10_PaddingSharesOrEmpty ==
  \A r \in Requests :
    C10_Case(r) =>
      LET k == Len(recovered[r]) IN
        /\ k >= MinUsableCases
        /\ IF k > 12 THEN batch[r] = SubSeq(recovered[r], 1, 12)
           ELSE /\ C10_KeptAndSynthesized(r, k)
                /\ IF recovered[r][1].request # 0
                   THEN C10_SharesFirstRequest(r, k)
                   ELSE C10_FreshEmptyRequests(r, k)

\* C10 witness: five cases recovered, the first without a request, seven synthesized
C10_Witness ==
  /\ C10_Case(1)
  /\ Len(recovered[1]) = 5
  /\ recovered[1][1].request = 0
  /\ recovered[1][2].request # 0
  /\ batch[1][6].request # 0

\* the text of the current attempt yields fewer than 4 cases: it is unparseable,
\* decodes to a value that is no array and has no testCases array, or to an array
\* (or testCases array) of fewer than 4 elements
C11_Case(r) ==
  /\ decoded[r] # NoText
  /\ \/ decoded[r].decode \in {"unparseable", "otherJson"}
     \/ decoded[r].k < 4

\* C11: an attempt that recovers fewer than 4 cases never returns a batch of its
\* own: it ends as a transient failure, followed by a backoff sleep of
\* min(1000 * 2^a, 5000) + (0..299) ms and a retry while attempts remain, and by
\* the fallback batch after the last attempt.
C11_InsufficientIsTransientFailure ==
  \A r \in Requests :
    C11_Case(r) =>
      /\ hist[r] # <<>> /\ Last(hist[r]) = "transient"
      /\ IF Len(hist[r]) < maxRetries
         THEN /\ pc[r] = "sleeping"
              /\ wait[r] - Min(1000 * Pow(2, Len(hist[r])), 5000) \in 0..299
         ELSE /\ pc[r] \in {"returned", "done"}
              /\ wait[r] = 0
              /\ pc[r] = "returned" =>
                   (batch[r] = generateFallbackTestCases /\ heap[r] = FallbackHeap)
              /\ pc[r] = "done" =>
                   (resp[r].success /\ resp[r].summary = Summary(generateFallbackTestCases))

\* C11 witness: a testCases array of 3 cases at the first attempt is slept on, and
\* unparseable text at the last attempt gives the fallback
C11_Witness ==
  /\ pc[1] = "returned"
  /\ hist[1] = <<"transient", "quota", "transient">>
  /\ decoded[1] = [decode |-> "unparseable", k |-> 0]
  /\ batch[1] = generateFallbackTestCases

\* the request was answered with a generated, patched batch
Answered(r) == pc[r] = "done" /\ resp[r].success /\ ~resp[r].cached

\* the configured success status of a spec: its expected_response.status when it
\* has one (0: none), otherwise 201 for POST and 200 for any other method
SuccessStatus(s) ==
  IF s.status # 0 THEN s.status ELSE IF s.method = "POST" THEN 201 ELSE 200

\* C14 (as claimed): for a POST spec with a body and expected status 201, the
\* cases 1..3 of the answered batch carry exactly the spec's body and expected
\* status 201 and case 11 carries an XSS body and expected status 400, however
\* the batch was obtained.
C14_PostBatchBodies ==
  \A r \in Requests :
    (Answered(r) /\ spec[r].method = "POST" /\ spec[r].body # EmptyObject
       /\ spec[r].status = 201) =>
      /\ \A i \in 1..3 :
           /\ resp[r].testCases[i].request.hasBody
           /\ resp[r].testCases[i].request.body = spec[r].body
           /\ resp[r].testCases[i].status = 201
      /\ resp[r].testCases[11].request.hasBody
      /\ resp[r].testCases[11].request.body.name = "<script>alert('XSS')</script>"
      /\ resp[r].testCases[11].status = 400

\* C15 (as claimed): in an answered batch every case of category valid has the
\* spec's configured success status as expected status.
C15_ValidCasesHaveSuccessStatus ==
  \A r \in Requests :
    Answered(r) =>
      \A i \in 1..Len(resp[r].testCases) :
        resp[r].testCases[i].category = "valid"
          => resp[r].testCases[i].status = SuccessStatus(spec[r])

\* C16: in an answered batch every case has the validated spec's method, endpoint
\* and headers, and for GET, DELETE, OPTIONS and HEAD no case carries a body.
C16_RequestsFollowSpec ==
  \A r \in Requests :
    Answered(r) =>
      \A i \in 1..Len(resp[r].testCases) :
        LET q == resp[r].testCases[i].request IN
          /\ q.method = spec[r].method
          /\ q.endpoint = spec[r].endpoint
          /\ q.headers = spec[r].headers
          /\ spec[r].method \in {"GET", "DELETE", "OPTIONS", "HEAD"} => ~q.hasBody

\* C16 witness: twelve model cases, each with a body of its own, patched for GET
C16_Witness ==
  /\ Answered(1)
  /\ spec[1].method = "GET"
  /\ Len(recovered[1]) = 12
  /\ \A i \in 1..12 : recovered[1][i].request = i /\ ModelRequest(i).hasBody
  /\ ~resp[1].testCases[12].request.hasBody

\* request r, which passes validation, is issued in this step
Issued(r) == pc[r] = "idle" /\ pc'[r] \notin {"idle", "rejected"}

\* request r stores its response in this step
Stores(r) == pc[r] = "returned" /\ pc'[r] = "done" /\ resp'[r].success

\* C12: a response marked cached was produced without a model invocation and has
\* the test cases of the response of an earlier request with the same fingerprint;
\* every entry of the cache is the response of such a request; a request issued
\* while the fingerprint's entry is at most stdTTL old is answered from it, marked
\* cached, and one issued later, or with no entry, invokes the model.
C12_ServedFromCacheWithinTTL ==
  /\ [](\A r \in Requests :
          resp[r].cached =>
            /\ pc[r] = "done" /\ calls[r] = 0 /\ resp[r].success
            /\ \E q \in Requests \ {r} :
                 /\ Answered(q) /\ spec[q] = spec[r]
                 /\ resp[r].testCases = resp[q].testCases
                 /\ resp[r].summary = resp[q].summary)
  /\ [](\A x \in cache :
          /\ x.t <= now + stdTTL * 1000
          /\ \E q \in Requests : Answered(q) /\ spec[q] = x.key /\ x.value = resp[q])
  /\ [][\A r \in Requests :
          Issued(r) =>
            LET stored == {x \in cache : x.key = spec'[r]} IN
              IF \E x \in stored : now <= x.t
              THEN /\ pc'[r] = "done" /\ calls'[r] = 0 /\ resp'[r].cached
                   /\ \E x \in stored : resp'[r].testCases = x.value.testCases
              ELSE /\ pc'[r] = "calling" /\ calls'[r] = 1 /\ ~resp'[r].cached]_vars

\* C12 witness: the second request is issued exactly stdTTL after the first one's
\* response was stored, and is served its twelve cases from the cache
C12_Witness ==
  /\ resp[2].cached /\ calls[2] = 0
  /\ Answered(1) /\ calls[1] > 0 /\ spec[1] = spec[2]
  /\ resp[2].testCases = resp[1].testCases /\ Len(resp[2].testCases) = 12
  /\ \E x \in cache : x.key = spec[2] /\ x.t = now /\ now = stdTTL * 1000

\* C13: the cache never holds two entries for one fingerprint; a request that
\* stores its response replaces the fingerprint's entry with it and touches no
\* other entry, so the entry is that of the request that stored last; nothing
\* else adds to the cache; and a response served from the cache is one stored
\* response as a whole.
C13_LastWriterWins ==
  /\ [](\A x \in cache, y \in cache : x.key = y.key => x = y)
  /\ [](\A r \in Requests :
          resp[r].cached => \E q \in Requests \ {r} : resp[r] = [resp[q] EXCEPT !.cached = TRUE])
  /\ [][\A r \in Requests :
          IF Stores(r)
          THEN /\ {x \in cache' : x.key = spec[r]}
                    = {[key |-> spec[r], value |-> resp'[r], t |-> now + stdTTL * 1000]}
               /\ {x \in cache' : x.key # spec[r]} = {x \in cache : x.key # spec[r]}
          ELSE (\A q \in Requests : ~Stores(q)) => cache' \subseteq cache]_vars

\* C13 witness: two requests with the same fingerprint both missed the cache and
\* both invoked the model; their responses differ and the cache holds request 1's
C13_Witness ==
  /\ Answered(1) /\ Answered(2)
  /\ spec[1] = spec[2]
  /\ calls[1] > 0 /\ calls[2] > 0
  /\ resp[1] # resp[2]
  /\ cache = {[key |-> spec[1], value |-> resp[1], t |-> now + stdTTL * 1000]}

\* the run was accepted with a positive integer as its concurrency
PositiveConcurrency == rpc \notin {"idle", "rejected"} /\ concurrency.kind = "integer" /\ concurrency.n > 0

\* none of the tests of the run is the value null
NoInternalFault == \A i \in 1..Len(tests) : tests[i] # "null"

\* C17: in a run with concurrency limit c, a positive integer, never more than c
\* probes are in flight, in batch and in streaming mode; a test is in flight or
\* queued or has its result, never two of these.
C17_InFlightBounded ==
  PositiveConcurrency =>
    /\ mode \in {"batch", "stream"}
    /\ Cardinality(active) <= concurrency.n
    /\ \A i \in 1..Len(queue) : queue[i] \notin active
    /\ \A i \in active : results[i] = NoResult

\* C17 witness: three tests streamed with limit 2; one probe has completed, the
\* third test has taken its slot
C17_Witness ==
  /\ PositiveConcurrency /\ concurrency.n = 2
  /\ mode = "stream" /\ Len(tests) = 3
  /\ completed = <<2>>
  /\ active = {1, 3}

\* C18: a completed batch run answers with one result per input test, in the
\* tests' positions, each with status PASSED, FAILED or ERROR, and a summary with
\* total = number of tests and passed + failed + errors = total.
C18_OneResultPerTest ==
  (mode = "batch" /\ rpc = "done") =>
    /\ runResp.success /\ runResp.status = 200
    /\ Len(runResp.results) = Len(tests)
    /\ \A i \in 1..Len(tests) :
         /\ runResp.results[i].id = RunTest(i, tests[i]).id
         /\ runResp.results[i].status \in {"PASSED", "FAILED", "ERROR"}
    /\ runResp.summary.total = Len(tests)
    /\ runResp.summary.passed + runResp.summary.failed + runResp.summary.errors
         = runResp.summary.total

\* C18 witness: three tests, one passed, one failed, one in error
C18_Witness ==
  /\ mode = "batch" /\ rpc = "done"
  /\ Len(runResp.results) = 3
  /\ runResp.summary = [total |-> 3, passed |-> 1, failed |-> 1, errors |-> 1]

\* C19: a probe that ends in a transport failure gives its test the status
\* ERROR and changes no other test's result; the next queued test is started;
\* unless a test is no object the batch run never fails, and when it is done
\* every test has the verdict of its own outcome.
C19_TransportFaultIsolated ==
  /\ [][\A i \in 1..MaxTests, o \in ProbeOutcomes :
          (ProbeCompletes(i, o) /\ o.kind = "error") =>
            /\ results'[i].status = "ERROR" /\ results'[i].error # ""
            /\ \A j \in 1..Len(tests) : j # i => results'[j] = results[j]
            /\ queue # <<>> => (Head(queue) \in active' \/ tests[Head(queue)] = "null")
            /\ (NoInternalFault /\ rpc = "running") => rpc' \in {"running", "done"}]_vars
  /\ []((mode = "batch" /\ NoInternalFault /\ rpc \notin {"idle", "rejected"}
           /\ ~PLimitThrows(ConcurrencyOf(concurrency))) =>
          /\ rpc \in {"running", "done"}
          /\ rpc = "done" =>
               /\ runResp.success
               /\ \A i \in 1..Len(tests) :
                    LET res == runResp.results[i] IN
                      /\ res.status = "PASSED" <=> (tests[i] = "expect200" /\ res.actual = 200)
                      /\ res.status = "FAILED" <=> (tests[i] = "expect200" /\ res.actual = 400))

\* C19 witness: with limit 1 the first probe is refused; the other two tests are
\* run after it and pass
C19_Witness ==
  /\ mode = "batch" /\ rpc = "done" /\ limit = 1
  /\ completed = <<1, 2, 3>>
  /\ runResp.results[1].status = "ERROR"
  /\ runResp.results[1].error = "Connection refused - Server not reachable"
  /\ runResp.results[2].status = "PASSED"
  /\ runResp.results[3].status = "PASSED"

\* C20: in a streaming run without internal fault the events written are one
\* test-result event per completed probe, in the order of completion, each with
\* that test's result; when the run is done every test has completed once, and
\* the test-result events are followed by exactly one done event and the end of
\* the stream, after which nothing is written.
C20_StreamEvents ==
  /\ []((mode = "stream" /\ rpc \in {"running", "done"}) =>
          LET n == Len(completed) IN
            /\ Len(events) >= n
            /\ \A k \in 1..n :
                 /\ events[k].event = "test-result"
                 /\ events[k].result = results[completed[k]]
                 /\ events[k].result.id = RunTest(completed[k], tests[completed[k]]).id
            /\ \A k \in 1..n, l \in 1..n : completed[k] = completed[l] => k = l
            /\ rpc = "running" => Len(events) = n
            /\ rpc = "done" =>
                 /\ n = Len(tests)
                 /\ Len(events) = n + 2
                 /\ events[n + 1].event = "done"
                 /\ events[n + 1].summary.total = n
                 /\ events[n + 2].event = "end")
  /\ [][rpc = "done" => events' = events]_vars

\* C20 witness: three probes complete in the order 3, 1, 2
C20_Witness ==
  /\ mode = "stream" /\ rpc = "done"
  /\ completed = <<3, 1, 2>>
  /\ Len(events) = 5
  /\ events[1].result.id = "T3"
  /\ events[4].event = "done"

C22_InvalidTarget(tg) == tg.targetUrl \in {"", "not a url"}

\* what holds of a refused run: a failure response, no probe, no event
C22_Refused ==
  rpc = "rejected" =>
    /\ runResp.status = 400 /\ ~runResp.success
    /\ runResp.results = <<>>
    /\ tests = <<>> /\ queue = <<>> /\ active = {} /\ completed = <<>>
    /\ events = <<>> /\ delivered = <<>>

C23_List(p) == IF p.present THEN p.texts ELSE <<>>

\* C23: the report of validateResponse has passed = TRUE exactly when every
\* entry of details has; details has 1 + |body_contains| + |body_not_contains|
\* entries: the status_code check, then one body_contains check per text in
\* list order, then one body_not_contains check per text in list order; with no
\* body predicates and the expected status, passed is TRUE with one entry.
C23_ReportIsConjunction ==
  (call.fn = "validateResponse" /\ call.returned) =>
    LET v == call.ret
        r == call.arg.response
        e == call.arg.expected
        bc == C23_List(e.body_contains)
        bnc == C23_List(e.body_not_contains)
    IN /\ v.passed <=> \A k \in 1..Len(v.details) : v.details[k].passed
       /\ Len(v.details) = 1 + Len(bc) + Len(bnc)
       /\ v.details[1].check = "status_code"
       /\ v.details[1].passed <=> r.status = e.status
       /\ \A k \in 1..Len(bc) :
            /\ v.details[1 + k].check = "body_contains"
            /\ v.details[1 + k].expected = [contains |-> bc[k]]
            /\ v.details[1 + k].passed <=> Includes(r.data.text, bc[k])
       /\ \A k \in 1..Len(bnc) :
            /\ v.details[1 + Len(bc) + k].check = "body_not_contains"
            /\ v.details[1 + Len(bc) + k].expected = [excludes |-> bnc[k]]
            /\ v.details[1 + Len(bc) + k].passed <=> ~Includes(r.data.text, bnc[k])
       /\ (bc = <<>> /\ bnc = <<>> /\ r.status = e.status) =>
            (v.passed /\ Len(v.details) = 1)

\* C23 witness: status 200 as expected, the body {a:ok} contains "ok" and "",
\* but also the forbidden "ok": five entries, the last one failed
C23_Witness ==
  /\ call.fn = "validateResponse" /\ call.returned
  /\ call.arg.response.status = 200 /\ call.arg.expected.status = 200
  /\ call.arg.response.data.type = "object"
  /\ call.arg.expected.body_contains = Texts(<<<<"o", "k">>, <<>>>>)
  /\ call.arg.expected.body_not_contains = Texts(<<<<"x">>, <<"o", "k">>>>)
  /\ ~call.ret.passed
  /\ Len(call.ret.details) = 5
  /\ call.ret.details[4].passed /\ ~call.ret.details[5].passed

\* executeTest has returned
C24_Case == call.fn = "executeTest" /\ call.returned

\* an ERROR result records a cause and no validation report
C24_ErrorShape(res) ==
  res.status = "ERROR" => (res.error # "" /\ res.validations = NoValidations)

\* C24 as stated: the result is PASSED exactly when a response was received and
\* its report has passed = TRUE, FAILED exactly when a response was received and
\* the report has passed = FALSE, and ERROR exactly when the probe ended in a
\* transport failure; an ERROR result has a cause and no report.
C24_ClassifiedByOutcome ==
  C24_Case =>
    LET t == call.arg.test
        o == call.arg.outcome
        res == call.ret
    IN /\ res.status = "PASSED" <=>
            (o.kind = "response" /\ validateResponse(o, t.expected).passed)
       /\ res.status = "FAILED" <=>
            (o.kind = "response" /\ ~validateResponse(o, t.expected).passed)
       /\ res.status = "ERROR" <=> o.kind = "error"
       /\ C24_ErrorShape(res)

\* C24, amended: ERROR exactly when the try block of executeTest throws, which
\* is when the probe ended in a transport failure or the test has no request or
\* no expected_response; otherwise a response was received, whatever its
\* status, the result carries its report and is PASSED or FAILED by the
\* report's passed.
C24_ClassifiedByOutcomeOrThrow ==
  C24_Case =>
    LET t == call.arg.test
        o == call.arg.outcome
        res == call.ret
        wellFormed == t.hasRequest /\ t.hasExpected
        inspected == wellFormed /\ o.kind = "response"
    IN /\ res.status \in {"PASSED", "FAILED", "ERROR"}
       /\ res.status = "ERROR" <=> (~wellFormed \/ o.kind = "error")
       /\ inspected =>
            /\ res.validations = validateResponse(o, t.expected)
            /\ res.validations.details[1].actual = [status |-> o.status]
            /\ res.status = "PASSED" <=> res.validations.passed
            /\ res.status = "FAILED" <=> ~res.validations.passed
            /\ (t.expected.body_contains = NoTexts /\ t.expected.body_not_contains = NoTexts)
                 => (res.status = "PASSED" <=> o.status = t.expected.status)
            /\ res.actual = o.status /\ res.error = ""
       /\ C24_ErrorShape(res)
       /\ (t.hasRequest /\ o.kind = "error") =>
            res.error = (CASE o.code = "ECONNREFUSED" ->
                                "Connection refused - Server not reachable"
                           [] o.code = "ETIMEDOUT" ->
                                "Request timeout - Server took too long to respond"
                           [] o.code = "ENOTFOUND" -> "DNS lookup failed - Invalid host"
                           [] OTHER -> o.message)
       /\ res.id = t.id /\ res.category = t.category

\* C24 witness: a test expecting status 404 gets a response with status 404 and
\* is PASSED
C24_Witness ==
  /\ C24_Case
  /\ call.arg.test.hasRequest /\ call.arg.test.hasExpected
  /\ call.arg.test.expected.status = 404
  /\ call.arg.outcome.kind = "response" /\ call.arg.outcome.status = 404
  /\ call.ret.status = "PASSED"
  /\ Len(call.ret.validations.details) = 1

\* the batch the fallback is to return, written out
C25_Ids ==
  <<"TC_001", "TC_002", "TC_003", "TC_004", "TC_005", "TC_006",
    "TC_007", "TC_008", "TC_009", "TC_010", "TC_011", "TC_012">>

C25_Categories ==
  <<"valid", "valid", "valid", "invalid", "invalid", "invalid", "invalid",
    "boundary", "boundary", "boundary", "security", "security">>

\* the cases cs with their request objects hp are the fallback batch
C25_IsFallbackBatch(cs, hp) ==
  /\ Len(cs) = 12
  /\ \A i \in 1..12 :
       /\ cs[i].id = C25_Ids[i]
       /\ cs[i].category = C25_Categories[i]
       /\ cs[i].status = (IF C25_Categories[i] = "valid" THEN 200 ELSE 400)
       /\ cs[i].prim = ""
       /\ cs[i].request \in 1..Len(hp)
       /\ hp[cs[i].request].method = "GET"
       /\ hp[cs[i].request].endpoint = "/api/test"
       /\ ~hp[cs[i].request].hasBody
       /\ \A j \in 1..12 : cs[i].request = cs[j].request => i = j

\* request r gets the fallback batch in this step
C25_FallbackReturned(r) ==
  /\ pc[r] \in {"calling", "sleeping"}
  /\ pc'[r] = "returned"
  /\ (hist'[r] = <<>> \/ Last(hist'[r]) # "ok")

\* C25: whenever generateWithRetry returns the fallback, for any request, after
\* any history of attempts, and whatever other requests have done with the
\* batches they got, it returns the same 12 cases: ids TC_001..TC_012, 3 valid,
\* 4 invalid, 3 boundary, 2 security by position, status 200 for valid and 400
\* otherwise, each with a request object of its own, GET /api/test.
C25_FallbackIsFixed ==
  [][\A r \in Requests :
       C25_FallbackReturned(r) => C25_IsFallbackBatch(batch'[r], heap'[r])]_vars

\* C25 witness: the first request got the fallback and patched it for its POST
\* spec; the second request, after two attempts, has just got the fallback
C25_Witness ==
  /\ pc[1] = "done" /\ resp[1].success
  /\ hist[1] # <<>> /\ Last(hist[1]) # "ok"
  /\ heap[1][batch[1][1].request].method = "POST"
  /\ pc[2] = "returned" /\ Len(hist[2]) = 2 /\ Last(hist[2]) # "ok"
  /\ C25_IsFallbackBatch(batch[2], heap[2])

\* extractArrayFromText has returned
C26_Case == call.fn = "extractArrayFromText" /\ call.returned

\* prose: a word, or a remark in brackets
C26_Prose == {<<"w">>, <<"[", "w", "]">>}

\* a segment that is a fenced block, and what is between its fences after the tag
C26_Fenced(seg) == seg[1] = "f"
C26_Content(seg) ==
  IF seg[2] = "j" THEN SubSeq(seg, 3, Len(seg) - 1) ELSE SubSeq(seg, 2, Len(seg) - 1)

\* the fenced blocks of the text that hold a valid JSON array
C26_FencedArrays(ss) ==
  {C26_Content(ss[k]) : k \in {l \in 1..Len(ss) : C26_Fenced(ss[l]) /\
                                   ParsesToArray(C26_Content(ss[l]))}}

\* the text is a valid JSON array with prose before and after it
C26_ArrayInProse(ss, k) ==
  /\ k \in 1..Len(ss)
  /\ ~C26_Fenced(ss[k]) /\ ParsesToArray(ss[k])
  /\ \A l \in 1..Len(ss) : l # k => ss[l] \in C26_Prose

\* no part of the text is a valid JSON array
C26_NoArrayAnywhere(s) ==
  \A i \in 1..Len(s), j \in 1..Len(s) : i <= j => ~ParsesToArray(SubSeq(s, i, j))

\* C26 as stated: a text with a fenced block holding a valid JSON array gives
\* that array; a text without fences that is a valid JSON array with prose
\* before and after it gives that array; a text with no parseable array gives
\* null.
C26_ExtractsTheArray ==
  C26_Case =>
    LET ss == call.arg.segments
        s == call.arg.text
    IN /\ C26_FencedArrays(ss) # {} => call.ret \in C26_FencedArrays(ss)
       /\ \A k \in 1..Len(ss) : C26_ArrayInProse(ss, k) => call.ret = ss[k]
       /\ C26_NoArrayAnywhere(s) => call.ret = NoArray

\* between the fences of the first fenced block of the text; <<>> without one
C26_FirstBlock(ss) ==
  IF \E k \in 1..Len(ss) : C26_Fenced(ss[k])
  THEN C26_Content(ss[CHOOSE k \in 1..Len(ss) :
                        C26_Fenced(ss[k]) /\ \A l \in 1..(k - 1) : ~C26_Fenced(ss[l])])
  ELSE <<>>

\* from the first "[" of the text to its last "]"; <<>> if there is no such part
C26_Span(s) ==
  LET ends == {p \in (1..Len(s)) \X (1..Len(s)) :
                 /\ p[1] < p[2]
                 /\ s[p[1]] = "[" /\ \A l \in 1..(p[1] - 1) : s[l] # "["
                 /\ s[p[2]] = "]" /\ \A l \in (p[2] + 1)..Len(s) : s[l] # "]"}
  IN IF ends = {} THEN <<>>
     ELSE LET p == CHOOSE q \in ends : TRUE IN SubSeq(s, p[1], p[2])

\* from the "[" after the first testCases key that has one, to the nearest "]"
C26_Pattern(s) ==
  LET ends == {p \in (1..Len(s)) \X (1..Len(s)) :
                 /\ p[1] > 1 /\ p[1] < p[2]
                 /\ s[p[1] - 1] = "t" /\ s[p[1]] = "[" /\ s[p[2]] = "]"
                 /\ \A l \in (p[1] + 1)..(p[2] - 1) : s[l] # "]"}
  IN IF ends = {} THEN <<>>
     ELSE LET p == CHOOSE q \in ends : \A o \in ends : q[1] <= o[1]
          IN SubSeq(s, p[1], p[2])

\* C26, amended: the result is the array of the first fenced block of the text
\* if that block holds a valid JSON array (or an object whose testCases is
\* one), whatever else the text holds; else the part from the first "[" to the
\* last "]" of the whole text if that parses to an array, which it does for an
\* array in prose when the prose before it has no "[" and the prose after it no
\* "]"; else the part from the "[" after the first testCases key to the nearest
\* "]" if that parses to an array; else null.  A result that is not null is a
\* part of the text that parses to an array; a text with no parseable array
\* gives null.
C26_ExtractsByStrategy ==
  C26_Case =>
    LET ss == call.arg.segments
        s == call.arg.text
        block == C26_FirstBlock(ss)
    IN /\ call.ret =
            (IF ParsesToArray(block) THEN block
             ELSE IF block = <<"{", "t", "[", "v", "]", "}">> THEN <<"[", "v", "]">>
             ELSE IF ParsesToArray(C26_Span(s)) THEN C26_Span(s)
             ELSE IF ParsesToArray(C26_Pattern(s)) THEN C26_Pattern(s)
             ELSE NoArray)
       /\ \A k \in 1..Len(ss) :
            (/\ C26_ArrayInProse(ss, k)
             /\ \A l \in 1..(k - 1) : ss[l] = <<"w">>
             /\ \A l \in (k + 1)..Len(ss) : ss[l] = <<"w">>) => call.ret = ss[k]
       /\ call.ret # NoArray =>
            /\ ParsesToArray(call.ret)
            /\ \E i \in 1..Len(s), j \in 1..Len(s) : call.ret = SubSeq(s, i, j)
       /\ C26_NoArrayAnywhere(s) => call.ret = NoArray

\* C26 witness: a remark in brackets, then a fenced block with an array of three,
\* then a word: the array of the block is returned
C26_Witness ==
  /\ C26_Case
  /\ call.arg.segments =
       <<<<"[", "w", "]">>, <<"f", "[", "v", "v", "v", "]", "f">>, <<"w">>>>
  /\ call.ret = <<"[", "v", "v", "v", "]">>


(***************************************************************************)
(* C27: rejected generation requests                                       *)
(***************************************************************************)
\* the three faults the claim names: no spec object, an endpoint that (after
\* trimming) does not start with "/", a method outside the allowed set
C27_Faulty(raw) ==
  \/ ~raw.isObject
  \/ raw.endpoint.kind # "string"
  \/ Trim(raw.endpoint.text) = <<>>
  \/ Head(Trim(raw.endpoint.text)) # "/"
  \/ raw.method.kind # "string"
  \/ Len(raw.method.text) # 1
  \/ \A m \in validMethods : toUpperCase(raw.method.text[1]) # m

C27_Codes == {"INVALID_SPEC", "VALIDATION_ERROR"}

C27_Answered(r) ==
  /\ resp[r].status = 400
  /\ ~resp[r].success
  /\ resp[r].code \in C27_Codes
  /\ resp[r].testCases = <<>>

\* C27: a generation request without a spec object, with an endpoint that does not
\* start with "/" or with a method outside the allowed set is answered by a
\* failure (status 400) carrying a machine-readable code, and is never retried:
\* the step that rejects it reads and writes no cache entry and invokes no model,
\* and a rejected request stays rejected with no model invocation and no attempt
C27_InvalidSpecRejected ==
  /\ [](\A r \in Requests :
          pc[r] = "rejected" =>
            /\ C27_Answered(r)
            /\ calls[r] = 0 /\ attempt[r] = 0 /\ hist[r] = <<>> /\ sleeps[r] = 0)
  /\ [][\A r \in Requests :
          (pc[r] = "idle" /\ pc'[r] = "rejected") =>
            /\ cache' = cache
            /\ calls' = calls
            /\ \A raw \in RawSpecs : C27_Faulty(raw) => ~Validation(raw).ok
            /\ \A raw \in RawSpecs :
                 RejectGenerate(r, raw) =>
                   resp'[r].code =
                     (IF raw.isObject THEN "VALIDATION_ERROR" ELSE "INVALID_SPEC")]_vars
  /\ [][\A r \in Requests :
          pc[r] = "rejected" =>
            /\ pc'[r] = "rejected" /\ resp'[r] = resp[r] /\ calls'[r] = 0]_vars
  /\ [][\A r \in Requests :
          (pc[r] = "idle" /\ pc'[r] \in {"calling", "done"}) =>
            \E raw \in RawSpecs :
              /\ ~C27_Faulty(raw)
              /\ Validation(raw).ok
              /\ Validation(raw).method = <<spec'[r].method>>]_vars

\* a request was rejected for its method while the other request's entry, already
\* expired, is still in the cache and the other request was answered
C27_Witness ==
  /\ pc[1] = "rejected"
  /\ resp[1].code = "VALIDATION_ERROR"
  /\ pc[2] = "done"
  /\ resp[2].success
  /\ cache # {}
  /\ \E x \in cache : x.t < now


(***************************************************************************)
(* C28, C29: the waits of the retry loop                                   *)
(***************************************************************************)
\* request r's attempt fails in this step: the catch block has run
C28_AttemptFails(r) ==
  /\ pc[r] = "calling"
  /\ Len(hist'[r]) = Len(hist[r]) + 1
  /\ Last(hist'[r]) # "ok"

C28_Quota(e) ==
  \/ e.message \cap {"429", "Too Many Requests", "quota", "Quota"} # {}
  \/ (e.data.has /\ e.data.quotaText)

C28_Auth(e) == e.message \cap {"API key", "api key", "authentication", "invalid key"} # {}

C28_Base(a) == IF 1000 * Pow(2, a) <= 5000 THEN 1000 * Pow(2, a) ELSE 5000

\* C28: when attempt a fails with an error that is neither a quota nor an
\* authentication error, generateWithRetry sleeps only if a < 3, for b to b + 299
\* ms with b = min(1000 * 2^a, 5000), and the next attempt invokes the model when
\* the sleep is over; at a = 3 it does not sleep and returns the fallback batch
C28_TransientBackoff ==
  /\ [][\A r \in Single :
          (C28_AttemptFails(r) /\ ~C28_Quota(err'[r]) /\ ~C28_Auth(err'[r])) =>
            IF attempt[r] < 3
            THEN /\ pc'[r] = "sleeping"
                 /\ wait'[r] \in C28_Base(attempt[r])..(C28_Base(attempt[r]) + 299)
                 /\ sleeps'[r] = sleeps[r] + 1
                 /\ calls'[r] = calls[r]
            ELSE /\ pc'[r] = "returned"
                 /\ wait'[r] = 0
                 /\ sleeps'[r] = sleeps[r]
                 /\ calls'[r] = calls[r]
                 /\ C25_IsFallbackBatch(batch'[r], heap'[r])]_vars
  /\ [][\A r \in Single :
          (pc[r] = "sleeping" /\ ~C28_Quota(err[r]) /\ pc'[r] # "sleeping") =>
            /\ pc'[r] = "calling"
            /\ sleptFor'[r] = wait[r]
            /\ attempt'[r] = attempt[r] + 1
            /\ calls'[r] = calls[r] + 1]_vars

\* three attempts failed with transient errors: two sleeps, the second of the
\* longest duration, and the fallback batch without a third sleep
C28_Witness ==
  /\ pc[1] = "returned"
  /\ hist[1] = <<"transient", "transient", "transient">>
  /\ sleeps[1] = 2
  /\ sleptFor[1] = 4299
  /\ calls[1] = 3

\* the error carries no advised delay: no retryDelay in a payload, no Retry-After
C29_NoAdvice(e) ==
  /\ e.data.retryDelay.kind = "absent"
  /\ e.data.nestedRetryDelay.kind = "absent"
  /\ e.retryAfter.kind = "absent"

C29_ZeroQuota(e) == e.data.has /\ e.data.limit \in {"zero", "message"}

\* C29: when attempt a fails with a quota error that advises no delay and does not
\* indicate a zero quota, generateWithRetry waits b to b + 999 ms with
\* b = min(1000 * 2^a, 5000); and no sleep of the retry loop, whatever the error
\* and the advised delay, is longer than 60000 ms
C29_QuotaBackoffAndCap ==
  /\ [][\A r \in Single :
          (C28_AttemptFails(r) /\ C28_Quota(err'[r]) /\ C29_NoAdvice(err'[r])
             /\ ~C29_ZeroQuota(err'[r])) =>
            /\ pc'[r] = "sleeping"
            /\ wait'[r] \in C28_Base(attempt[r])..(C28_Base(attempt[r]) + 999)]_vars
  /\ [](\A r \in Single : wait[r] <= 60000 /\ sleptFor[r] <= 60000)
  /\ [][\A r \in Single : pc[r] = "sleeping" /\ pc'[r] # "sleeping" => sleptFor'[r] = wait[r]]_vars

\* the second attempt failed with a quota error without advice and slept the
\* longest backoff of that attempt; the third failed with a quota error advising
\* more than a minute and sleeps the capped 60 seconds
C29_Witness ==
  /\ pc[1] = "sleeping"
  /\ attempt[1] = 3
  /\ hist[1][2] = "quota"
  /\ sleptFor[1] = 4999
  /\ wait[1] = 60000


(***************************************************************************)
(* C30: the patch of one case and the other cases                          *)
(***************************************************************************)
\* the body lines 623-641 assign to a case of category c with id `id`
C30_CategoryBody(c, id, s) ==
  IF c = "valid" THEN s.body
  ELSE IF c = "invalid" THEN InvalidBody(id, s.body)
  ELSE IF c = "boundary" THEN BoundaryBody(id, s.body)
  ELSE SecurityBody

\* C30 (as claimed): in a batch answered for a method with a body, every case of
\* one of the four categories carries the body assigned to its own category and
\* id; no patch of another case has replaced it, also when the batch was padded
\* from fewer than 12 cases of the model.
C30_PatchIsLocal ==
  \A r \in Requests :
    (Answered(r) /\ spec[r].method \in {"POST", "PUT", "PATCH"}) =>
      \A i \in 1..Len(resp[r].testCases) :
        LET tc == resp[r].testCases[i] IN
          tc.category \in {"valid", "invalid", "boundary", "security"} =>
            /\ tc.request.hasBody
            /\ tc.request.body = C30_CategoryBody(tc.category, tc.id, spec[r])

(***************************************************************************)
(* C31: expected statuses and the bodies of the invalid cases              *)
(***************************************************************************)
\* the spec's body with the defect the id selects
C31_Defect(id, body) ==
  IF id = "TC_004" THEN [f \in (DOMAIN body) \ {"name"} |-> body[f]]
  ELSE IF id = "TC_005" THEN [f \in (DOMAIN body) \ {"email"} |-> body[f]]
  ELSE IF id = "TC_006"
  THEN [f \in (DOMAIN body) \cup {"email"} |-> IF f = "email" THEN "notanemail" ELSE body[f]]
  ELSE [invalid_field |-> "wrong data"]

\* in an answered batch a case expects 400 exactly if its category is not valid
C31_StatusByCategory ==
  \A r \in Requests :
    Answered(r) =>
      \A i \in 1..Len(resp[r].testCases) :
        resp[r].testCases[i].status = 400 <=> resp[r].testCases[i].category # "valid"

\* C31 (as claimed): in an answered batch a case expects 400 exactly if its
\* category is not valid, for every method; and for POST, PUT and PATCH every
\* case of category invalid carries the spec's body with the defect its id selects
\* (TC_004 without name, TC_005 without email, TC_006 with a corrupt email, any
\* other id an unrelated field).
C31_StatusAndInvalidBodies ==
  /\ C31_StatusByCategory
  /\ \A r \in Requests :
       (Answered(r) /\ spec[r].method \in {"POST", "PUT", "PATCH"}) =>
         \A i \in 1..Len(resp[r].testCases) :
           LET tc == resp[r].testCases[i] IN
             tc.category = "invalid" =>
               /\ tc.request.hasBody
               /\ tc.request.body = C31_Defect(tc.id, spec[r].body)

(***************************************************************************)
(* C32: the validated spec and the patch loop                              *)
(***************************************************************************)
\* C32: the patch loop leaves the validated spec as it was: its body and headers
\* have the same fields and values after the loop, although the bodies of invalid
\* cases lose or change fields; from the cache lookup to the cache write the spec
\* of a request does not change, and the entry is written under its fingerprint
C32_SpecUnchangedByPatch ==
  /\ [][\A r \in Requests :
          (pc[r] = "returned" /\ pc'[r] = "done") =>
            /\ spec'[r].body = spec[r].body
            /\ spec'[r].headers = spec[r].headers
            /\ spec'[r] = spec[r]
            /\ resp'[r].success =>
                 \E x \in cache' : x.key = spec'[r] /\ x.value = resp'[r]]_vars
  /\ [][\A r \in Requests : pc[r] \notin {"idle", "rejected"} => spec'[r] = spec[r]]_vars

\* a POST request was answered with a case TC_004 whose body lacks the name, and
\* a case TC_006 with a corrupt email, while the spec's body has its name and email
C32_Witness ==
  /\ Answered(1)
  /\ spec[1].method = "POST"
  /\ spec[1].body = JohnBody
  /\ resp[1].testCases[4].id = "TC_004"
  /\ resp[1].testCases[4].request.body = [email |-> "john@example.com"]
  /\ resp[1].testCases[6].request.body = [name |-> "John", email |-> "notanemail"]
  /\ \E x \in cache : x.key = spec[1]

(***************************************************************************)
(* C33: when the cache is written                                          *)
(***************************************************************************)
\* the handler of request r goes on after generateWithRetry returned a batch
C33_AfterReturn(r) == pc[r] = "returned" /\ pc'[r] # "returned"

\* C33 (as claimed): an entry is written exactly when generateWithRetry returned a
\* batch, the fallback batch like a batch of the model: the step after the return
\* stores the response under the request's spec for stdTTL seconds, no other step
\* adds an entry, a response served from the cache took no model invocation, and
\* the step that answers a propagated error leaves the cache as it is.
C33_CachedExactlyWhenReturned ==
  /\ [][\A r \in Requests :
          C33_AfterReturn(r) =>
            \E x \in cache' :
              /\ x.key = spec[r]
              /\ x.t = now + stdTTL * 1000
              /\ x.value = resp'[r]
              /\ resp'[r].success]_vars
  /\ [][~(cache' \subseteq cache) => \E r \in Requests : C33_AfterReturn(r)]_vars
  /\ [][\A r \in Requests : (pc[r] = "thrown" /\ pc'[r] # "thrown") => cache' = cache]_vars
  /\ [](\A r \in Requests : resp[r].cached => calls[r] = 0)

(***************************************************************************)
(* C34: the sleep after a quota error on the last attempt                  *)
(***************************************************************************)
\* the wait after a quota error at the last attempt: the advised delay plus the
\* padding, capped, or the backoff of that attempt
C34_FullWait(e, w) ==
  \/ w \in 5000..5999
  \/ \E ms \in RetryDelayMs(e) : ms > 0 /\ w = (IF ms + 500 <= 60000 THEN ms + 500 ELSE 60000)

\* the sleep after the last attempt ends with the fallback and no invocation
C34_NoInvocationAfterLastSleep ==
  [][\A r \in Single :
       (pc[r] = "sleeping" /\ attempt[r] = 3 /\ pc'[r] # "sleeping") =>
         /\ pc'[r] = "returned"
         /\ sleptFor'[r] = wait[r]
         /\ calls'[r] = calls[r]
         /\ C25_IsFallbackBatch(batch'[r], heap'[r])]_vars

\* a call that met only transient errors slept maxRetries - 1 times
C34_TransientSleeps ==
  [](\A r \in Single :
       (pc[r] = "returned" /\ hist[r] # <<>>
          /\ \A i \in 1..Len(hist[r]) : hist[r][i] = "transient") => sleeps[r] = 2)

\* C34 (as claimed): a quota error at attempt 3 is followed by the full quota wait
\* and then by the fallback batch without another invocation; a call that met
\* only quota errors slept 3 times, one that met only transient errors 2 times.
C34_QuotaWaitsAtLastAttempt ==
  /\ [][\A r \in Single :
          (C28_AttemptFails(r) /\ C28_Quota(err'[r]) /\ attempt[r] = 3) =>
            /\ pc'[r] = "sleeping"
            /\ C34_FullWait(err'[r], wait'[r])]_vars
  /\ C34_NoInvocationAfterLastSleep
  /\ [](\A r \in Single :
          (pc[r] = "returned" /\ hist[r] # <<>>
             /\ \A i \in 1..Len(hist[r]) : hist[r][i] \in {"quota", "zeroquota"}) =>
            sleeps[r] = 3)
  /\ C34_TransientSleeps

\* C34 (amended): as above for quota errors that do not indicate a zero quota; a
\* quota error that does is followed by the fallback batch at once, without a
\* sleep, at any attempt.
C34_QuotaWaitsUnlessZeroQuota ==
  /\ [][\A r \in Single :
          (C28_AttemptFails(r) /\ C28_Quota(err'[r]) /\ attempt[r] = 3) =>
            IF C29_ZeroQuota(err'[r])
            THEN /\ pc'[r] = "returned"
                 /\ wait'[r] = 0
                 /\ sleeps'[r] = sleeps[r]
                 /\ C25_IsFallbackBatch(batch'[r], heap'[r])
            ELSE /\ pc'[r] = "sleeping"
                 /\ sleeps'[r] = sleeps[r] + 1
                 /\ C34_FullWait(err'[r], wait'[r])]_vars
  /\ C34_NoInvocationAfterLastSleep
  /\ [](\A r \in Single :
          (pc[r] = "returned" /\ hist[r] # <<>>
             /\ \A i \in 1..Len(hist[r]) : hist[r][i] = "quota") => sleeps[r] = 3)
  /\ [](\A r \in Single :
          (pc[r] = "returned" /\ hist[r] # <<>> /\ Last(hist[r]) = "zeroquota"
             /\ \A i \in 1..Len(hist[r]) : hist[r][i] \in {"quota", "zeroquota"}) =>
            sleeps[r] = Len(hist[r]) - 1)
  /\ C34_TransientSleeps

\* three quota errors, three sleeps, the last one the longest backoff of attempt 3,
\* then the fallback batch after three invocations
C34_Witness ==
  /\ pc[1] = "returned"
  /\ hist[1] = <<"quota", "quota", "quota">>
  /\ sleeps[1] = 3
  /\ sleptFor[1] = 5999
  /\ calls[1] = 3
  /\ C25_IsFallbackBatch(batch[1], heap[1])

(***************************************************************************)
(* C35: the error path of a streaming run                                  *)
(***************************************************************************)
\* C35 (as claimed): in a streaming run that ends through the error path the
\* handler writes no test-result event after the error event and the end of the
\* stream, also when probes are in flight at the time the join fails
C35_NoResultAfterError ==
  (mode = "stream" /\ rpc = "failed") =>
    \A i \in 1..Len(events), j \in 1..Len(events) :
      (i < j /\ events[i].event \in {"error", "end"}) => events[j].event # "test-result"

(***************************************************************************)
(* C36: every test of a run is run                                         *)
(***************************************************************************)
\* a run has been accepted
C36_Accepted == rpc \notin {"idle", "rejected"}

\* test i of the run has been started (or has rejected at its start)
C36_Started(i) == \A k \in 1..Len(queue) : queue[k] # i

C36_HasResult(i) == i <= Len(results) /\ results[i] # NoResult

C37_Verdict(kind, o) ==
  IF o.kind = "error" \/ kind # "expect200" THEN "ERROR"
  ELSE IF o.status = 200 THEN "PASSED"
  ELSE "FAILED"

\* the result at index i belongs to the i-th test
C37_OwnResult(res, i) ==
  /\ res.id = "T" \o ToString(i)
  /\ res.category = (IF i = 1 THEN "valid" ELSE IF i = 2 THEN "invalid" ELSE "security")
  /\ res.description = "test T" \o ToString(i)

\* C37: the results of a completed batch run are in the order of submission,
\* whatever the order of completion: the result at index i has the id, category
\* and description of the i-th test; when the probe of test i ends, the result at
\* index i gets the verdict of that probe's outcome and no other result changes
C37_ResultsInSubmissionOrder ==
  /\ []((mode = "batch" /\ rpc = "done") =>
          /\ Len(runResp.results) = Len(tests)
          /\ runResp.results = results
          /\ \A i \in 1..Len(tests) : C37_OwnResult(runResp.results[i], i))
  /\ [][\A i \in 1..MaxTests, o \in ProbeOutcomes :
          ProbeCompletes(i, o) =>
            /\ C37_OwnResult(results'[i], i)
            /\ results'[i].status = C37_Verdict(tests[i], o)
            /\ results'[i].actual = (IF results'[i].status = "ERROR" THEN 0 ELSE o.status)
            /\ \A j \in 1..Len(results) : j # i => results'[j] = results[j]]_vars

\* the probes of a batch run completed in the order 3, 1, 2; the results are
\* those of tests 1, 2, 3, with different verdicts
C37_Witness ==
  /\ mode = "batch" /\ rpc = "done"
  /\ completed = <<3, 1, 2>>
  /\ runResp.results[1].id = "T1" /\ runResp.results[1].status = "PASSED"
  /\ runResp.results[2].id = "T2" /\ runResp.results[2].status = "FAILED"
  /\ runResp.results[3].id = "T3" /\ runResp.results[3].status = "ERROR"

(***************************************************************************)
(* C38: the breakdown by category of the batch response                    *)
(***************************************************************************)
C38_Four == {"valid", "invalid", "boundary", "security"}

C38_SumTotal(bc) ==
  bc["valid"].total + bc["invalid"].total + bc["boundary"].total + bc["security"].total

C38_SumPassed(bc) ==
  bc["valid"].passed + bc["invalid"].passed + bc["boundary"].passed + bc["security"].passed

\* C38: in the batch response, for each of the four categories passed <= total;
\* the four totals add up to at most summary.total, and to summary.total when
\* every result's category is one of the four; the four passed counts add up to
\* at most summary.passed
C38_BreakdownWithinSummary ==
  (call.fn = "batchResponse" /\ call.returned) =>
    LET bc == call.ret.byCategory
        sm == call.ret.summary
        rs == call.arg.results
    IN /\ DOMAIN bc = C38_Four
       /\ \A c \in C38_Four : 0 <= bc[c].passed /\ bc[c].passed <= bc[c].total
       /\ C38_SumTotal(bc) <= sm.total
       /\ (\A i \in 1..Len(rs) : rs[i].category \in C38_Four) => C38_SumTotal(bc) = sm.total
       /\ C38_SumPassed(bc) <= sm.passed
       /\ sm.total = Len(rs)

\* three results, one of them passed in a category outside the four: the totals
\* add up to 2 of 3, the passed counts to 1 of 2
C38_Witness ==
  /\ call.fn = "batchResponse" /\ call.returned
  /\ call.ret.summary.total = 3 /\ call.ret.summary.passed = 2
  /\ C38_SumTotal(call.ret.byCategory) = 2
  /\ C38_SumPassed(call.ret.byCategory) = 1
  /\ call.ret.byCategory["security"] = [total |-> 1, passed |-> 0]

(***************************************************************************)
(* C39: the concurrency bound of a run                                     *)
(***************************************************************************)
C39_Negative(c) == c.kind = "integer" /\ c.n < 0

\* the bound the claim gives for a concurrency that is not a negative integer
C39_Bound(c) == IF c.kind = "integer" /\ c.n > 0 THEN c.n ELSE 8

\* C39: an accepted run uses the request's concurrency as bound when it is a
\* non-zero integer, and the default, 8, when it is missing, zero or no integer;
\* with a negative integer the run fails at once, with status 500 in batch mode
\* and an error event in streaming mode, and no probe is ever started
C39_BoundOfRun ==
  /\ [][(rpc = "idle" /\ rpc' \notin {"idle", "rejected"}) =>
          LET m == mode'
              c == concurrency'
          IN
            IF C39_Negative(c)
            THEN /\ rpc' = "failed"
                 /\ active' = {} /\ queue' = <<>> /\ results' = <<>>
                 /\ m = "batch" =>
                      runResp'.status = 500 /\ ~runResp'.success /\ events' = <<>>
                 /\ m = "stream" =>
                      /\ Len(events') = 2
                      /\ events'[1].event = "error" /\ events'[2].event = "end"
                      /\ runResp' = runResp
            ELSE /\ limit' = C39_Bound(c)
                 /\ Cardinality(active') <= C39_Bound(c)
                 /\ (queue' # <<>> /\ rpc' = "running") => Cardinality(active') = C39_Bound(c)]_vars
  /\ []((rpc \notin {"idle", "rejected"} /\ C39_Negative(concurrency)) =>
          rpc = "failed" /\ active = {} /\ completed = <<>>)
  /\ []((rpc \notin {"idle", "rejected"} /\ ~C39_Negative(concurrency)) =>
          limit = C39_Bound(concurrency))

\* a streaming run of three tests with concurrency -1: the error event and the
\* end of the stream, no probe
C39_Witness ==
  /\ mode = "stream" /\ rpc = "failed"
  /\ concurrency = [kind |-> "integer", n |-> -1]
  /\ Len(tests) = 3
  /\ \A i \in 1..3 : tests[i] = "expect200"
  /\ Len(events) = 2 /\ events[1].event = "error"
  /\ active = {} /\ completed = <<>>

====
